---- MODULE Spec2Model ----
(***************************************************************************)
(* Retrieval-augmented context pipeline of the PDF chat server:            *)
(*   - the tokenizing chunker   (src/routes/upload.js, chunkTextByTokens)  *)
(*   - the embedding adapter    (src/services/vector.js, getEmbedding)     *)
(*   - the vector index         (src/services/vector.js, ensureCollection, *)
(*                               upsertChunks, search)                     *)
(*   - the lexical fallback scorer (src/routes/chat.js, findRelevantChunks)*)
(*   - the context assembler and the chat turn (src/routes/chat.js,        *)
(*                               POST / and generateAIResponse)            *)
(* Each asynchronous function is a process whose steps end at the awaits   *)
(* of the code; the synchronous chunker is stepped one loop iteration at a *)
(* time.                                                                   *)
(***************************************************************************)
EXTENDS Integers, Sequences, FiniteSets, TLC

\* ------------------------------------------------------------------ bounds
MaxTextLen == 6
MaxChunkTokens == 3
MaxOverlapTokens == 3
\* cap on the iterations of the chunker's while loop that are explored
MaxIter == MaxTextLen + 2

\* ------------------------------------------------------- JavaScript values
Null == "null"
Undefined == "undefined"

\* an optional value: None is null / undefined / an absent key
None == <<>>
Some(x) == <<x>>

Max(a, b) == IF a >= b THEN a ELSE b
Min(a, b) == IF a <= b THEN a ELSE b

\* ========================================================================
\*                              TOKENIZING CHUNKER
\* ========================================================================
VARIABLES rawText, opts, ckpc, ckOutcome, encoderLive, tokens, chunks, start,
          chunkIndex, chunkSize, overlap, windows

\* state of the embedding adapter and the vector index (defined further down)
VARIABLES proc, client, clientsConstructed, collections, points, opsLeft

vsvars == <<proc, client, clientsConstructed, collections, points, opsLeft>>

\* state of a findRelevantChunks call (defined further down)
VARIABLES content, question, maxChunks, frpc, scoredChunks, relevant

frvars == <<content, question, maxChunks, frpc, scoredChunks, relevant>>

\* state of a chat turn (defined further down)
VARIABLES config, body, chatSession, contextResults, conversationHistory,
          normalizedContext, messages, chpc, response, sessions, turnsLeft

chvars == <<config, body, chatSession, contextResults, conversationHistory,
            normalizedContext, messages, chpc, response, sessions, turnsLeft>>

\* everything of the chat route
chatvars == <<frvars, chvars>>

\* state of an upload request and of the document store (defined further down)
VARIABLES upreq, document, documentStore, uppc, upResponse, statusReply,
          uploadsLeft

upvars == <<upreq, document, documentStore, uppc, upResponse, statusReply,
            uploadsLeft>>

ckvars == <<rawText, opts, ckpc, ckOutcome, encoderLive, tokens, chunks,
            start, chunkIndex, chunkSize, overlap, windows>>

\* upload.js:193 default of the chunkTokens option
DefaultChunkTokens == 2000
DefaultModel == "gpt-3.5-turbo"

\* Texts are sequences of characters over a two-letter alphabet.
Chars == {"a", "b"}
Texts == UNION {[1..n -> Chars] : n \in 0..MaxTextLen}

\* The tokenizer is a byte-pair encoding: token 1 is "a", token 2 is "b" and
\* token 3 is the merged pair "ab"; encode merges greedily from the left.
RECURSIVE EncodeFrom(_, _)
EncodeFrom(t, i) ==
  IF i > Len(t) THEN <<>>
  ELSE IF i < Len(t) /\ t[i] = "a" /\ t[i + 1] = "b"
       THEN <<3>> \o EncodeFrom(t, i + 2)
       ELSE <<(IF t[i] = "a" THEN 1 ELSE 2)>> \o EncodeFrom(t, i + 1)

Encode(t) == EncodeFrom(t, 1)

RECURSIVE Decode(_)
Decode(ts) ==
  IF ts = <<>> THEN <<>>
  ELSE (CASE Head(ts) = 1 -> <<"a">>
          [] Head(ts) = 2 -> <<"b">>
          [] OTHER -> <<"a", "b">>) \o Decode(Tail(ts))

\* encoding_for_model(name) throws for a model name it does not know
KnownModels == {DefaultModel}
ModelNames == {DefaultModel, Undefined, "no-such-model"}

\* x || d  for a number x (0 is falsy)
OrDefault(x, d) == IF x = 0 THEN d ELSE x

\* a null or undefined rawText argument, kept apart from every text
NullText == <<Null>>
UndefinedText == <<Undefined>>
\* rawText || ''
TextOrEmpty(t) == IF t \in {NullText, UndefinedText} THEN <<>> ELSE t

\* tokens.slice(s, e), 0-based half-open
Slice(ts, s, e) == SubSeq(ts, s + 1, e)

\* the window size without the clamp to at least one token
ChunkSizeOf_unclamped(o) == OrDefault(o.chunkTokens, DefaultChunkTokens)
\* the overlap option ignored
OverlapOf_ignored(o) == 0

ChunkSizeOf(o) == Max(1, OrDefault(o.chunkTokens, DefaultChunkTokens))
OverlapOf(o) == Max(0, OrDefault(o.overlapTokens, 0))

OptsSet == [chunkTokens : -1..MaxChunkTokens,
            overlapTokens : -1..MaxOverlapTokens,
            model : ModelNames]

ChunkIdle ==
  /\ ckpc = "idle"
  /\ rawText = NullText
  /\ opts = [chunkTokens |-> 0, overlapTokens |-> 0, model |-> Undefined]
  /\ ckOutcome = "none"
  /\ encoderLive = FALSE
  /\ tokens = <<>>
  /\ chunks = <<>>
  /\ start = 0
  /\ chunkIndex = 0
  /\ chunkSize = 0
  /\ overlap = 0
  /\ windows = <<>>

\* a call chunkTextByTokens(rawText, opts) about to run
ChunkInputs ==
  /\ ckpc = "call"
  /\ rawText \in Texts \cup {NullText, UndefinedText}
  /\ opts \in OptsSet
  /\ ckOutcome = "none"
  /\ encoderLive = FALSE
  /\ tokens = <<>>
  /\ chunks = <<>>
  /\ start = 0
  /\ chunkIndex = 0
  /\ chunkSize = 0
  /\ overlap = 0
  /\ windows = <<>>

\* lines 194-201: create the encoder, encode, set up the loop variables
ChunkCall ==
  /\ ckpc = "call"
  /\ IF (IF opts.model = Undefined THEN DefaultModel ELSE opts.model) \in KnownModels
     THEN /\ encoderLive' = TRUE
          /\ tokens' = Encode(TextOrEmpty(rawText))
          /\ chunkSize' = ChunkSizeOf(opts)
          /\ overlap' = OverlapOf(opts)
          /\ ckpc' = "loop"
          /\ UNCHANGED ckOutcome
     ELSE /\ ckOutcome' = "threw"
          /\ ckpc' = "done"
          /\ UNCHANGED <<encoderLive, tokens, chunkSize, overlap>>
  /\ start' = 0
  /\ chunkIndex' = 0
  /\ chunks' = <<>>
  /\ windows' = <<>>
  /\ UNCHANGED <<rawText, opts>>
  /\ UNCHANGED <<vsvars, chatvars, upvars>>

\* one iteration that starts the next window where the last one ended
ChunkIter_no_overlap ==
  /\ ckpc = "loop"
  /\ start < Len(tokens)
  /\ Len(chunks) < MaxIter
  /\ LET end == Min(start + chunkSize, Len(tokens))
         text == Decode(Slice(tokens, start, end))
     IN /\ chunks' = Append(chunks, [text |-> <<text>>, page |-> None, chunkIndex |-> chunkIndex])
        /\ windows' = Append(windows, <<start, end>>)
        /\ chunkIndex' = chunkIndex + 1
        /\ IF end = Len(tokens)
           THEN /\ ckpc' = "done"
                /\ ckOutcome' = "returned"
                /\ encoderLive' = FALSE
                /\ UNCHANGED start
           ELSE /\ start' = end
                /\ UNCHANGED <<ckpc, ckOutcome, encoderLive>>
  /\ UNCHANGED <<rawText, opts, tokens, chunkSize, overlap>>
  /\ UNCHANGED <<vsvars, chatvars, upvars>>

\* lines 203-223: one iteration of the while loop
ChunkIter ==
  /\ ckpc = "loop"
  /\ start < Len(tokens)
  /\ Len(chunks) < MaxIter
  /\ LET end == Min(start + chunkSize, Len(tokens))
         text == Decode(Slice(tokens, start, end))
     IN /\ chunks' = Append(chunks, [text |-> <<text>>, page |-> None, chunkIndex |-> chunkIndex])
        /\ windows' = Append(windows, <<start, end>>)
        /\ chunkIndex' = chunkIndex + 1
        /\ IF end = Len(tokens)
           THEN /\ ckpc' = "done"
                /\ ckOutcome' = "returned"
                /\ encoderLive' = FALSE
                /\ UNCHANGED start
           ELSE /\ start' = Max(end - overlap, 0)
                /\ UNCHANGED <<ckpc, ckOutcome, encoderLive>>
  /\ UNCHANGED <<rawText, opts, tokens, chunkSize, overlap>>
  /\ UNCHANGED <<vsvars, chatvars, upvars>>

\* a return that emits one chunk for the text that was never windowed
ChunkReturn_one_chunk ==
  /\ ckpc = "loop"
  /\ ~(start < Len(tokens))
  /\ ckpc' = "done"
  /\ ckOutcome' = "returned"
  /\ encoderLive' = FALSE
  /\ chunks' = Append(chunks, [text |-> <<Decode(tokens)>>, page |-> None, chunkIndex |-> chunkIndex])
  /\ UNCHANGED <<rawText, opts, tokens, start, chunkIndex, chunkSize, overlap, windows>>
  /\ UNCHANGED <<vsvars, chatvars, upvars>>

\* lines 203, 225-228: the loop condition is false; return, freeing the encoder
ChunkReturn ==
  /\ ckpc = "loop"
  /\ ~(start < Len(tokens))
  /\ ckpc' = "done"
  /\ ckOutcome' = "returned"
  /\ encoderLive' = FALSE
  /\ UNCHANGED <<rawText, opts, tokens, chunks, start, chunkIndex, chunkSize, overlap, windows>>
  /\ UNCHANGED <<vsvars, chatvars, upvars>>

\* ========================================================================
\*                    EMBEDDING ADAPTER AND VECTOR INDEX
\* ========================================================================
\* bounds of the explored calls
MaxOps == 3
MaxChunks == 2
MaxPoints == 2

Procs == {1, 2}

\* vector.js:9-10 and the two endpoints of getEmbedding
QDRANT_COLLECTION == "pdf_chunks"
EmbedPath == "/api/embed"
LegacyPath == "/api/embeddings"
InvalidEmbedding == "Invalid embedding response from Ollama"

Docs == {"A", "B"}

\* A text argument of getEmbedding is a string or an array of strings.
Str(s) == [isArray |-> FALSE, items |-> <<s>>]
Arr(items) == [isArray |-> TRUE, items |-> items]

RECURSIVE JoinComma(_)
JoinComma(items) ==
  IF items = <<>> THEN ""
  ELSE IF Len(items) = 1 THEN items[1]
  ELSE items[1] \o "," \o JoinComma(Tail(items))

\* String(text || '')
StringOf(text) == IF text.isArray THEN JoinComma(text.items) ELSE text.items[1]
\* Array.isArray(text) ? text : [String(text || '')]
InputArray(text) == IF text.isArray THEN text.items ELSE <<StringOf(text)>>

\* ------------------------------------------------- embedding backend replies
\* The body of a reply: each of the three keys is absent (None) or an array.
Body(e, es, des) == [embedding |-> e, embeddings |-> es, dataEmbeddings |-> des]
EmptyBody == Body(None, None, None)
Bodies == {EmptyBody,
           Body(Some(<<1, 2>>), None, None),
           Body(None, Some(<< <<3, 4>>, <<5, 6>> >>), None),
           Body(None, Some(<<>>), None),
           Body(None, None, Some(<< <<9>> >>)),
           Body(Some(<<1, 2>>), Some(<< <<3, 4>>, <<5, 6>> >>), Some(<< <<9>> >>)),
           Body(None, Some(<< <<3, 4>>, <<5, 6>> >>), Some(<< <<9>> >>))}

\* What a request in flight can complete with: the call throws, or it yields a
\* response object; a response object that holds a reference cycle (the HTTP
\* client's own response object does) cannot be passed to JSON.stringify.
NoReply == [arrived |-> FALSE, threw |-> FALSE, data |-> EmptyBody, circular |-> FALSE]
PrimaryReplies ==
  {[arrived |-> TRUE, threw |-> TRUE, data |-> EmptyBody, circular |-> FALSE]}
  \cup [arrived : {TRUE}, threw : {FALSE}, data : Bodies, circular : BOOLEAN]
LegacyReplies == {r \in PrimaryReplies : ~r.circular}

NoRequest == [endpoint |-> "", input |-> <<>>, prompt |-> ""]

\* lines 171-175 / 184-186: the three-shape probe
Probe(data) ==
  IF data.embedding # None
    THEN [matched |-> TRUE, value |-> data.embedding]
  ELSE IF data.embeddings # None
    THEN [matched |-> TRUE,
          value |-> IF data.embeddings[1] = <<>> THEN None ELSE Some(data.embeddings[1][1])]
  ELSE IF data.dataEmbeddings # None
    THEN [matched |-> TRUE,
          value |-> IF data.dataEmbeddings[1] = <<>> THEN None ELSE Some(data.dataEmbeddings[1][1])]
  ELSE [matched |-> FALSE, value |-> None]

\* ------------------------------------------------------------- call inputs
\* the text of the first chunk of a list and the text of the later ones
ChunkTextAt(k) == IF k = 0 THEN "t" ELSE "u"
\* the first chunk of a list lies on page 2, a later one has no page or page 0
PagesOf(k) == IF k = 0 THEN {Some(2)} ELSE {None, Some(0)}
ChunkOf(k) == [text : {Arr(<<ChunkTextAt(k)>>)},
               page : PagesOf(k),
               chunkIndex : {k}]
\* the chunk lists of at most MaxChunks chunks, numbered from 0
RECURSIVE ChunkListsOf(_)
ChunkListsOf(n) ==
  IF n = 0 THEN {<<>>}
  ELSE {Append(cs, c) : cs \in ChunkListsOf(n - 1), c \in ChunkOf(n - 1)}
ChunkLists == UNION {ChunkListsOf(n) : n \in 0..MaxChunks}
NoMetadata == [k \in {} |-> ""]
BaseMetadatas == {NoMetadata, [filename |-> "f.pdf", documentId |-> "B"]}
Queries == {Str("q")}
TopKs == {1, 2}
VectorSizes == {1, 2}

IdleProc ==
  [op |-> "none", pc |-> "idle",
   text |-> Str(""), embText |-> Str(""), documentId |-> "", chunks |-> <<>>, chunksNull |-> FALSE,
   baseMetadata |-> NoMetadata, topK |-> 0, vectorSize |-> 0,
   i |-> 0, firstEmbedding |-> None, queryEmbedding |-> None, pts |-> <<>>,
   req |-> NoRequest, reply |-> NoReply,
   nPrimary |-> 0, nLegacy |-> 0, nEmbedCalls |-> 0, nPosts |-> 0,
   embStatus |-> "none", embValue |-> None,
   status |-> "none", error |-> "", vector |-> None, upserted |-> 0, results |-> <<>>]

\* ------------------------------------------------------------ vector backend
CollectionExists == \E col \in collections : col.name = QDRANT_COLLECTION
CollectionSize == (CHOOSE col \in collections : col.name = QDRANT_COLLECTION).size

\* similarity of two vectors of the same length
RECURSIVE Dot(_, _)
Dot(u, v) == IF u = <<>> THEN 0 ELSE Head(u) * Head(v) + Dot(Tail(u), Tail(v))

\* a search that is not restricted to one document
MatchesFilter_any(pt, documentId) == TRUE

\* the filter { must: [ { key: 'documentId', match: { value } } ] }
MatchesFilter(pt, documentId) ==
  "documentId" \in DOMAIN pt.payload /\ pt.payload.documentId = documentId

RECURSIVE FilterPoints(_, _)
FilterPoints(sq, documentId) ==
  IF sq = <<>> THEN <<>>
  ELSE (IF MatchesFilter(Head(sq), documentId) THEN <<Head(sq)>> ELSE <<>>)
       \o FilterPoints(Tail(sq), documentId)

\* index of the best-scoring element, the earliest among equals
BestIndex(sq) ==
  CHOOSE k \in 1..Len(sq) :
    /\ \A j \in 1..Len(sq) : sq[j].score <= sq[k].score
    /\ \A j \in 1..(k - 1) : sq[j].score < sq[k].score

Remove(sq, k) == SubSeq(sq, 1, k - 1) \o SubSeq(sq, k + 1, Len(sq))

RECURSIVE Ranked(_, _)
Ranked(sq, limit) ==
  IF sq = <<>> \/ limit <= 0 THEN <<>>
  ELSE LET k == BestIndex(sq) IN <<sq[k]>> \o Ranked(Remove(sq, k), limit - 1)

Scored(sq, q) ==
  [k \in 1..Len(sq) |-> [id |-> sq[k].id, score |-> Dot(q, sq[k].vector), payload |-> sq[k].payload]]

\* lines 385-393: nearest neighbours of q among the points that pass the filter
SearchBackend(documentId, q, limit) ==
  Ranked(Scored(FilterPoints(points, documentId), q), limit)


\* ------------------------------------------------------------ getEmbedding
\* lines 158-167: enter getEmbedding(text) and post the primary request
CallEmbedding(r, text) ==
  [r EXCEPT !.pc = "embPrimary",
            !.embText = text,
            !.req = [endpoint |-> EmbedPath, input |-> InputArray(text), prompt |-> ""],
            !.reply = NoReply,
            !.nPrimary = 1, !.nLegacy = 0,
            !.nEmbedCalls = @ + 1,
            !.nPosts = @ + 1,
            !.embStatus = "none", !.embValue = None]

\* the running operation fails with the given error
Throw(r, msg) ==
  [r EXCEPT !.pc = "done", !.status = "threw", !.error = msg,
            !.req = NoRequest, !.reply = NoReply]

\* a getClient that builds a new handle on every call
GetClient_always_new ==
  /\ client' = clientsConstructed + 1
  /\ clientsConstructed' = clientsConstructed + 1

\* lines 76-81
GetClient ==
  IF client = 0
    THEN /\ client' = clientsConstructed + 1
         /\ clientsConstructed' = clientsConstructed + 1
    ELSE UNCHANGED <<client, clientsConstructed>>

\* lines 198-200: enter ensureCollection(vectorSize) and request the collections
EnterEnsure(r, size) ==
  [r EXCEPT !.pc = "ensGet", !.vectorSize = size, !.req = NoRequest, !.reply = NoReply]

\* line 296, uuidv4(): an id that no stored point and no point under
\* construction carries
UsedIds ==
  {points[k].id : k \in 1..Len(points)}
  \cup UNION {{proc[p].pts[k].id : k \in 1..Len(proc[p].pts)} : p \in Procs}
\* an id that is new among the points of the calls in flight only, as an id
\* derived from the position of the chunk would be
FreshId_per_call ==
  LET used == UNION {{proc[p].pts[k].id : k \in 1..Len(proc[p].pts)} : p \in Procs}
  IN CHOOSE n \in 1..(Cardinality(used) + 1) :
       n \notin used /\ \A m \in 1..(n - 1) : m \in used

FreshId == CHOOSE n \in 1..(Cardinality(UsedIds) + 1) :
             n \notin UsedIds /\ \A m \in 1..(n - 1) : m \in UsedIds

\* chunk.page || null
PageOrNull(page) == IF page = Some(0) THEN None ELSE page

\* lines 295-305
MakePoint(r, chunk, vector, id) ==
  [id |-> id,
   vector |-> vector,
   payload |-> r.baseMetadata @@ [documentId |-> r.documentId,
                                  text |-> chunk.text,
                                  page |-> PageOrNull(chunk.page),
                                  chunkIndex |-> chunk.chunkIndex]]

\* a loop that puts each new point in front of the points built before
PushAndAdvance_prepends(r, vector, id) ==
  LET r1 == [r EXCEPT !.pts = <<MakePoint(r, r.chunks[r.i + 1], vector, id)>> \o @,
                      !.i = @ + 1]
  IN IF r1.i < Len(r1.chunks)
       THEN CallEmbedding(r1, r1.chunks[r1.i + 1].text)
       ELSE [r1 EXCEPT !.pc = "upWrite"]

\* lines 292-311: push the point of chunk i, then embed the next chunk or,
\* after the last one, send the points to the backend
PushAndAdvance(r, vector, id) ==
  LET r1 == [r EXCEPT !.pts = Append(@, MakePoint(r, r.chunks[r.i + 1], vector, id)),
                      !.i = @ + 1]
  IN IF r1.i < Len(r1.chunks)
       THEN CallEmbedding(r1, r1.chunks[r1.i + 1].text)
       ELSE [r1 EXCEPT !.pc = "upWrite"]

TypeErrorLength == "Cannot read properties of undefined (reading 'length')"

\* an upsert that leaves out a chunk whose embedding failed and goes on
ContinueEmbed_skips_failed(p, r, status, value) ==
  LET r0 == [r EXCEPT !.embStatus = status, !.embValue = value,
                      !.req = NoRequest, !.reply = NoReply]
  IN CASE r.op = "embed" ->
            /\ proc' = [proc EXCEPT ![p] =
                 IF status = "threw" THEN Throw(r0, InvalidEmbedding)
                 ELSE [r0 EXCEPT !.pc = "done", !.status = "returned", !.vector = value]]
            /\ UNCHANGED <<client, clientsConstructed>>
       [] r.op \in {"upsert", "search"} /\ status = "threw" /\ ~(r.op = "upsert" /\ r.i > 0) ->
            /\ proc' = [proc EXCEPT ![p] = Throw(r0, InvalidEmbedding)]
            /\ UNCHANGED <<client, clientsConstructed>>
       [] r.op = "upsert" /\ status = "threw" /\ r.i > 0 ->
            /\ proc' = [proc EXCEPT ![p] =
                 LET r1 == [r0 EXCEPT !.i = @ + 1]
                 IN IF r1.i < Len(r1.chunks)
                      THEN CallEmbedding(r1, r1.chunks[r1.i + 1].text)
                      ELSE [r1 EXCEPT !.pc = "upWrite"]]
            /\ UNCHANGED <<client, clientsConstructed>>
       [] r.op = "upsert" /\ status # "threw" /\ r.i = 0 ->
            \* lines 285-287: firstEmbedding.length, ensureCollection
            IF value = None
              THEN /\ proc' = [proc EXCEPT ![p] = Throw(r0, TypeErrorLength)]
                   /\ UNCHANGED <<client, clientsConstructed>>
              ELSE /\ proc' = [proc EXCEPT ![p] =
                        EnterEnsure([r0 EXCEPT !.firstEmbedding = value], Len(value[1]))]
                   /\ GetClient
       [] r.op = "upsert" /\ status # "threw" /\ r.i > 0 ->
            \* line 294 onwards
            /\ proc' = [proc EXCEPT ![p] = PushAndAdvance(r0, value, FreshId)]
            /\ UNCHANGED <<client, clientsConstructed>>
       [] r.op = "search" /\ status # "threw" ->
            \* lines 382-383: queryEmbedding.length, ensureCollection
            IF value = None
              THEN /\ proc' = [proc EXCEPT ![p] = Throw(r0, TypeErrorLength)]
                   /\ UNCHANGED <<client, clientsConstructed>>
              ELSE /\ proc' = [proc EXCEPT ![p] =
                        EnterEnsure([r0 EXCEPT !.queryEmbedding = value], Len(value[1]))]
                   /\ GetClient

\* getEmbedding has returned (or thrown) in process p: the caller goes on
ContinueEmbed(p, r, status, value) ==
  LET r0 == [r EXCEPT !.embStatus = status, !.embValue = value,
                      !.req = NoRequest, !.reply = NoReply]
  IN CASE r.op = "embed" ->
            /\ proc' = [proc EXCEPT ![p] =
                 IF status = "threw" THEN Throw(r0, InvalidEmbedding)
                 ELSE [r0 EXCEPT !.pc = "done", !.status = "returned", !.vector = value]]
            /\ UNCHANGED <<client, clientsConstructed>>
       [] r.op \in {"upsert", "search"} /\ status = "threw" ->
            /\ proc' = [proc EXCEPT ![p] = Throw(r0, InvalidEmbedding)]
            /\ UNCHANGED <<client, clientsConstructed>>
       [] r.op = "upsert" /\ status # "threw" /\ r.i = 0 ->
            \* lines 285-287: firstEmbedding.length, ensureCollection
            IF value = None
              THEN /\ proc' = [proc EXCEPT ![p] = Throw(r0, TypeErrorLength)]
                   /\ UNCHANGED <<client, clientsConstructed>>
              ELSE /\ proc' = [proc EXCEPT ![p] =
                        EnterEnsure([r0 EXCEPT !.firstEmbedding = value], Len(value[1]))]
                   /\ GetClient
       [] r.op = "upsert" /\ status # "threw" /\ r.i > 0 ->
            \* line 294 onwards
            /\ proc' = [proc EXCEPT ![p] = PushAndAdvance(r0, value, FreshId)]
            /\ UNCHANGED <<client, clientsConstructed>>
       [] r.op = "search" /\ status # "threw" ->
            \* lines 382-383: queryEmbedding.length, ensureCollection
            IF value = None
              THEN /\ proc' = [proc EXCEPT ![p] = Throw(r0, TypeErrorLength)]
                   /\ UNCHANGED <<client, clientsConstructed>>
              ELSE /\ proc' = [proc EXCEPT ![p] =
                        EnterEnsure([r0 EXCEPT !.queryEmbedding = value], Len(value[1]))]
                   /\ GetClient

\* the embedding backend completes the request in flight of process p
EmbedBackend(p) ==
  /\ proc[p].pc \in {"embPrimary", "embLegacy"}
  /\ ~proc[p].reply.arrived
  /\ \E rep \in (IF proc[p].pc = "embPrimary" THEN PrimaryReplies ELSE LegacyReplies) :
       proc' = [proc EXCEPT ![p].reply = rep]
  /\ UNCHANGED <<client, clientsConstructed, collections, points, opsLeft>>
  /\ UNCHANGED <<ckvars, chatvars, upvars>>

\* lines 163-189: the primary request has completed
OnPrimary(p) ==
  /\ proc[p].pc = "embPrimary"
  /\ proc[p].reply.arrived
  /\ LET r == proc[p]
         rep == r.reply
         probe == Probe(rep.data)
     IN IF rep.threw \/ rep.circular
          THEN \* the post or JSON.stringify(resp) threw: lines 176-183
               /\ proc' = [proc EXCEPT ![p] =
                    [r EXCEPT !.pc = "embLegacy",
                              !.req = [endpoint |-> LegacyPath, input |-> <<>>,
                                       prompt |-> StringOf(r.embText)],
                              !.reply = NoReply,
                              !.nLegacy = @ + 1,
                              !.nPosts = @ + 1]]
               /\ UNCHANGED <<client, clientsConstructed>>
          ELSE IF probe.matched
                 THEN ContinueEmbed(p, r, "returned", probe.value)
                 ELSE ContinueEmbed(p, r, "threw", None)
  /\ UNCHANGED <<collections, points, opsLeft>>
  /\ UNCHANGED <<ckvars, chatvars, upvars>>

\* a legacy step that posts the legacy request again after a failure
OnLegacy_retry(p) ==
  /\ proc[p].pc = "embLegacy"
  /\ proc[p].reply.arrived
  /\ LET r == proc[p]
         rep == r.reply
         probe == Probe(rep.data)
     IN IF ~rep.threw /\ probe.matched
          THEN ContinueEmbed(p, r, "returned", probe.value)
          ELSE IF r.nLegacy < 2
            THEN /\ proc' = [proc EXCEPT ![p] =
                      [r EXCEPT !.reply = NoReply, !.nLegacy = @ + 1, !.nPosts = @ + 1]]
                 /\ UNCHANGED <<client, clientsConstructed>>
            ELSE ContinueEmbed(p, r, "threw", None)
  /\ UNCHANGED <<collections, points, opsLeft>>
  /\ UNCHANGED <<ckvars, chatvars, upvars>>

\* lines 179-189: the legacy request has completed
OnLegacy(p) ==
  /\ proc[p].pc = "embLegacy"
  /\ proc[p].reply.arrived
  /\ LET r == proc[p]
         rep == r.reply
         probe == Probe(rep.data)
     IN IF ~rep.threw /\ probe.matched
          THEN ContinueEmbed(p, r, "returned", probe.value)
          ELSE ContinueEmbed(p, r, "threw", None)
  /\ UNCHANGED <<collections, points, opsLeft>>
  /\ UNCHANGED <<ckvars, chatvars, upvars>>


\* -------------------------------------------------------- ensureCollection
\* ensureCollection has returned in process p: the caller goes on
AfterEnsure(p, r) ==
  CASE r.op = "ensure" ->
         /\ proc' = [proc EXCEPT ![p] = [r EXCEPT !.pc = "done", !.status = "returned"]]
    [] r.op = "upsert" ->
         \* lines 289-294: getClient() finds the client, the loop starts at i = 0
         /\ proc' = [proc EXCEPT ![p] = PushAndAdvance(r, r.firstEmbedding, FreshId)]
    [] r.op = "search" ->
         \* lines 384-385: getClient() finds the client, the search is sent
         /\ proc' = [proc EXCEPT ![p] = [r EXCEPT !.pc = "searchWait"]]

BackendDown == "vector backend unavailable"
AlreadyExists == "collection already exists"
BadRequest == "vector backend rejected the request"

\* lines 200-206: getCollections has completed
EnsGet(p) ==
  /\ proc[p].pc = "ensGet"
  /\ \E ok \in BOOLEAN :
       IF ~ok
         THEN /\ proc' = [proc EXCEPT ![p] = Throw(proc[p], BackendDown)]
       ELSE IF CollectionExists
         THEN AfterEnsure(p, proc[p])
         ELSE /\ proc' = [proc EXCEPT ![p].pc = "ensCreate"]
  /\ UNCHANGED <<client, clientsConstructed, collections, points, opsLeft>>
  /\ UNCHANGED <<ckvars, chatvars, upvars>>

\* lines 203-206: createCollection has completed
EnsCreate(p) ==
  /\ proc[p].pc = "ensCreate"
  /\ \E ok \in BOOLEAN :
       IF ~ok
         THEN /\ proc' = [proc EXCEPT ![p] = Throw(proc[p], BackendDown)]
              /\ UNCHANGED collections
       ELSE IF CollectionExists
         THEN /\ proc' = [proc EXCEPT ![p] = Throw(proc[p], AlreadyExists)]
              /\ UNCHANGED collections
         ELSE /\ collections' = collections \cup
                   {[name |-> QDRANT_COLLECTION, size |-> proc[p].vectorSize, distance |-> "Cosine"]}
              /\ AfterEnsure(p, proc[p])
  /\ UNCHANGED <<client, clientsConstructed, points, opsLeft>>
  /\ UNCHANGED <<ckvars, chatvars, upvars>>

\* ------------------------------------------------------------ upsertChunks
\* a backend that accepts vectors of any dimension
Accepts_any_dimension(pts) == CollectionExists

\* the backend accepts a batch of points when every point has a vector of the
\* collection's dimension
Accepts(pts) ==
  /\ CollectionExists
  /\ \A k \in 1..Len(pts) : pts[k].vector # None /\ Len(pts[k].vector[1]) = CollectionSize

Stored(pts) == [k \in 1..Len(pts) |-> [pts[k] EXCEPT !.vector = @[1]]]

\* the backend's upsert: a point whose id is already stored replaces the
\* stored point, any other point is added
RECURSIVE UpsertPoints(_, _)
UpsertPoints(store, pts) ==
  IF pts = <<>> THEN store
  ELSE LET pt == Head(pts)
           hit == {k \in 1..Len(store) : store[k].id = pt.id}
       IN UpsertPoints(IF hit = {} THEN Append(store, pt)
                       ELSE [store EXCEPT ![CHOOSE k \in hit : TRUE] = pt],
                       Tail(pts))

\* lines 308-313: the upsert request has completed
UpWrite(p) ==
  /\ proc[p].pc = "upWrite"
  /\ \E ok \in BOOLEAN :
       IF ~ok
         THEN /\ proc' = [proc EXCEPT ![p] = Throw(proc[p], BackendDown)]
              /\ UNCHANGED points
       ELSE IF ~Accepts(proc[p].pts)
         THEN /\ proc' = [proc EXCEPT ![p] = Throw(proc[p], BadRequest)]
              /\ UNCHANGED points
         ELSE /\ points' = UpsertPoints(points, Stored(proc[p].pts))
              /\ proc' = [proc EXCEPT ![p] =
                   [proc[p] EXCEPT !.pc = "done", !.status = "returned",
                                   !.upserted = Len(proc[p].pts)]]
  /\ UNCHANGED <<client, clientsConstructed, collections, opsLeft>>
  /\ UNCHANGED <<ckvars, chatvars, upvars>>

\* ------------------------------------------------------------------ search
\* lines 385-394: the search request has completed
SearchWait(p) ==
  /\ proc[p].pc = "searchWait"
  /\ \E ok \in BOOLEAN :
       IF ~ok
         THEN proc' = [proc EXCEPT ![p] = Throw(proc[p], BackendDown)]
       ELSE IF ~(CollectionExists /\ Len(proc[p].queryEmbedding[1]) = CollectionSize)
         THEN proc' = [proc EXCEPT ![p] = Throw(proc[p], BadRequest)]
         ELSE proc' = [proc EXCEPT ![p] =
                [proc[p] EXCEPT !.pc = "done", !.status = "returned",
                                !.results = SearchBackend(proc[p].documentId,
                                                          proc[p].queryEmbedding[1],
                                                          proc[p].topK)]]
  /\ UNCHANGED <<client, clientsConstructed, collections, points, opsLeft>>
  /\ UNCHANGED <<ckvars, chatvars, upvars>>

\* ------------------------------------------------------------------- calls
CanStart(p) == proc[p].pc = "idle" /\ opsLeft[p] > 0

\* a caller invokes getEmbedding(text)
StartEmbed(p) ==
  /\ CanStart(p)
  /\ \E text \in Queries \cup {Arr(<<"t">>)} :
       proc' = [proc EXCEPT ![p] = CallEmbedding([IdleProc EXCEPT !.op = "embed", !.text = text], text)]
  /\ opsLeft' = [opsLeft EXCEPT ![p] = @ - 1]
  /\ UNCHANGED <<client, clientsConstructed, collections, points>>
  /\ UNCHANGED <<ckvars, chatvars, upvars>>

\* a caller invokes ensureCollection(vectorSize)
StartEnsure(p) ==
  /\ CanStart(p)
  /\ \E size \in VectorSizes :
       proc' = [proc EXCEPT ![p] = EnterEnsure([IdleProc EXCEPT !.op = "ensure"], size)]
  /\ GetClient
  /\ opsLeft' = [opsLeft EXCEPT ![p] = @ - 1]
  /\ UNCHANGED <<collections, points>>
  /\ UNCHANGED <<ckvars, chatvars, upvars>>

\* an upsert that checks the collection before it looks at the chunk list
StartUpsert_ensures_first(p) ==
  /\ CanStart(p)
  /\ \E documentId \in Docs, cs \in ChunkLists, isNull \in BOOLEAN, base \in BaseMetadatas :
       /\ isNull => cs = <<>>
       /\ Len(points) + Len(cs) <= MaxPoints
       /\ LET r == [IdleProc EXCEPT !.op = "upsert", !.documentId = documentId,
                                    !.chunks = cs, !.chunksNull = isNull,
                                    !.baseMetadata = base]
          IN proc' = [proc EXCEPT ![p] =
                IF isNull \/ Len(cs) = 0
                  THEN EnterEnsure(r, 1)
                  ELSE CallEmbedding(r, cs[1].text)]
  /\ opsLeft' = [opsLeft EXCEPT ![p] = @ - 1]
  /\ UNCHANGED <<client, clientsConstructed, collections, points>>
  /\ UNCHANGED <<ckvars, chatvars, upvars>>

\* a caller invokes upsertChunks(documentId, chunks, baseMetadata); lines 282-285
StartUpsert(p) ==
  /\ CanStart(p)
  /\ \E documentId \in Docs, cs \in ChunkLists, isNull \in BOOLEAN, base \in BaseMetadatas :
       /\ isNull => cs = <<>>
       /\ Len(points) + Len(cs) <= MaxPoints
       /\ LET r == [IdleProc EXCEPT !.op = "upsert", !.documentId = documentId,
                                    !.chunks = cs, !.chunksNull = isNull,
                                    !.baseMetadata = base]
          IN proc' = [proc EXCEPT ![p] =
                IF isNull \/ Len(cs) = 0
                  THEN [r EXCEPT !.pc = "done", !.status = "returned", !.upserted = 0]
                  ELSE CallEmbedding(r, cs[1].text)]
  /\ opsLeft' = [opsLeft EXCEPT ![p] = @ - 1]
  /\ UNCHANGED <<client, clientsConstructed, collections, points>>
  /\ UNCHANGED <<ckvars, chatvars, upvars>>

\* a caller invokes search(documentId, queryText, topK); lines 381-382
StartSearch(p) ==
  /\ CanStart(p)
  /\ \E documentId \in Docs, q \in Queries, topK \in TopKs :
       proc' = [proc EXCEPT ![p] =
          CallEmbedding([IdleProc EXCEPT !.op = "search", !.documentId = documentId,
                                         !.text = q, !.topK = topK], q)]
  /\ opsLeft' = [opsLeft EXCEPT ![p] = @ - 1]
  /\ UNCHANGED <<client, clientsConstructed, collections, points>>
  /\ UNCHANGED <<ckvars, chatvars, upvars>>

\* the caller has taken the outcome of its call; the process is free again
Finish(p) ==
  /\ proc[p].pc = "done"
  /\ proc' = [proc EXCEPT ![p] = IdleProc]
  /\ UNCHANGED <<client, clientsConstructed, collections, points, opsLeft>>
  /\ UNCHANGED <<ckvars, chatvars, upvars>>

VectorIdle ==
  /\ proc = [p \in Procs |-> IdleProc]
  /\ client = 0
  /\ clientsConstructed = 0
  /\ points = <<>>


\* ========================================================================
\*                          LEXICAL FALLBACK SCORER
\* ========================================================================
\* Strings of the chat route are sequences of characters.
MaxFallbackChunks == 3

\* the characters matched by [.!?] and by \s
Terminators == {".", "!", "?"}
Whitespace == {" ", "\n"}

UpperCase == {"A", "C", "T"}
LowerOf(c) == CASE c = "A" -> "a" [] c = "C" -> "c" [] c = "T" -> "t" [] OTHER -> c
\* String.prototype.toLowerCase
ToLowerCase(str) == [k \in 1..Len(str) |-> LowerOf(str[k])]

\* String.prototype.trim
RECURSIVE TrimStart(_)
TrimStart(str) ==
  IF str # <<>> /\ Head(str) \in Whitespace THEN TrimStart(Tail(str)) ELSE str
RECURSIVE TrimEnd(_)
TrimEnd(str) ==
  IF str # <<>> /\ str[Len(str)] \in Whitespace
    THEN TrimEnd(SubSeq(str, 1, Len(str) - 1)) ELSE str
Trim(str) == TrimEnd(TrimStart(str))

\* str.split(/[seps]+/): the pieces between the maximal runs of separator
\* characters; a run at either end of the string leaves an empty piece there
RECURSIVE DropRun(_, _)
DropRun(str, seps) ==
  IF str # <<>> /\ Head(str) \in seps THEN DropRun(Tail(str), seps) ELSE str
RECURSIVE SplitRuns(_, _)
SplitRuns(str, seps) ==
  LET at == {k \in 1..Len(str) : str[k] \in seps}
  IN IF at = {} THEN <<str>>
     ELSE LET k == CHOOSE a \in at : \A b \in at : a <= b
          IN <<SubSeq(str, 1, k - 1)>> \o SplitRuns(DropRun(SubSeq(str, k, Len(str)), seps), seps)

\* hay.includes(needle)
Includes(hay, needle) ==
  \E k \in 0..(Len(hay) - Len(needle)) : SubSeq(hay, k + 1, k + Len(needle)) = needle

\* array.slice(0, n) for n >= 0
Take(sq, n) == SubSeq(sq, 1, Min(n, Len(sq)))

\* line 25: the fragments between terminators that are long enough
Sentences(text) == SelectSeq(SplitRuns(text, Terminators), LAMBDA f : Len(Trim(f)) > 10)
\* lines 26, 29
WordsOf(str) == SplitRuns(ToLowerCase(str), Whitespace)

\* lines 30-32: the number of question words that contain, or are contained
\* in, a word of the sentence
Overlap(questionWords, sentenceWords) ==
  Cardinality({k \in 1..Len(questionWords) :
     \E j \in 1..Len(sentenceWords) :
        \/ Includes(sentenceWords[j], questionWords[k])
        \/ Includes(questionWords[k], sentenceWords[j])})

\* lines 28-34
ScoreChunks(sentences, questionWords) ==
  [k \in 1..Len(sentences) |->
     [sentence |-> sentences[k], index |-> k - 1,
      score |-> Overlap(questionWords, WordsOf(sentences[k]))]]

\* a sort that puts an element in front of the elements of equal score
InsertByScore_before_equals(sorted, x) ==
  LET before == {k \in 1..Len(sorted) : sorted[k].score > x.score}
      n == Cardinality(before)
  IN SubSeq(sorted, 1, n) \o <<x>> \o SubSeq(sorted, n + 1, Len(sorted))

\* line 37, sort((a, b) => b.score - a.score): the sort is stable, an element
\* goes behind every element whose score is not smaller
InsertByScore(sorted, x) ==
  LET before == {k \in 1..Len(sorted) : sorted[k].score >= x.score}
      n == Cardinality(before)
  IN SubSeq(sorted, 1, n) \o <<x>> \o SubSeq(sorted, n + 1, Len(sorted))

RECURSIVE SortByScore(_)
SortByScore(sq) ==
  IF sq = <<>> THEN <<>>
  ELSE InsertByScore(SortByScore(SubSeq(sq, 1, Len(sq) - 1)), sq[Len(sq)])

\* lines 24-40 as a function
FindRelevantChunks(text, q, limit) ==
  LET sorted == SortByScore(ScoreChunks(Sentences(text), WordsOf(q)))
      top == Take(sorted, limit)
  IN [k \in 1..Len(top) |-> Trim(top[k].sentence)]

\* document texts and questions
Contents == {
  <<"c", "a", "t", " ", "s", "a", "t", " ", "o", "n", " ", "a", " ", "m", "a", "t", ".", "d", "o", "g", " ", "r", "a", "n", " ", "f", "a", "r", " ", "a", "w", "a", "y", ".", "c", "a", "t", " ", "a", "n", "d", " ", "d", "o", "g", " ", "n", "a", "p">>,
  <<"T", "h", "e", " ", "c", "a", "t", " ", "s", "a", "t", " ", "o", "n", " ", "a", " ", "m", "a", "t", ".", " ", "A", " ", "d", "o", "g", " ", "r", "a", "n", " ", "f", "a", "r", " ", "a", "w", "a", "y", "!", " ", "T", "i", "n", "y", ".">>,
  <<"a", "b", "c", "d", "e", "f", "g", "h", "i", "j", ".", " ", "a", "b", "c", "d", "e", "f", "g", "h", "i", "j", "k", "?", "?", " ", "C", "a", "t", " ", "c", "a", "t", " ", "c", "a", "t", " ", "c", "a", "t">>,
  <<"o", "n", "e", " ", "t", "w", "o", " ", "t", "h", "r", "e", "e", " ", "f", "o", "u", "r", "\n", "f", "i", "v", "e", " ", "s", "i", "x", ".", " ", "s", "e", "v", "e", "n", " ", "e", "i", "g", "h", "t", " ", "n", "i", "n", "e", " ", "t", "e", "n">>,
  <<"s", "h", "o", "r", "t", ".", " ", "t", "i", "n", "y">>,
  <<"d", "o", "g", " ", "o", "n", "e", " ", "t", "w", "o", " ", "t", "h", "r", "e", "e", ".", "c", "a", "t", " ", "o", "n", "e", " ", "t", "w", "o", " ", "t", "h", "r", "e", "e", ".", "d", "o", "g", " ", "c", "a", "t", " ", "o", "n", "e", " ", "t", "w", "o", ".", "e", "m", "u", " ", "o", "n", "e", " ", "t", "w", "o", " ", "t", "h", "r", "e", "e">>}
Questions == {
  <<"c", "a", "t">>,
  <<"d", "o", "g", " ", "c", "a", "t">>,
  <<"C", "a", "t", " ", "d", "o", "g", " ", "e", "m", "u">>,
  <<" ", "c", "a", "t">>,
  <<"f", "o", "x">>,
  <<"c", "a", "t", "\n">>}

FallbackIdle ==
  /\ content = <<>>
  /\ question = <<>>
  /\ maxChunks = 0
  /\ frpc = "idle"
  /\ scoredChunks = <<>>
  /\ relevant = <<>>

\* a call findRelevantChunks(content, question, maxChunks) about to run
FallbackInputs ==
  /\ content \in Contents
  /\ question \in Questions
  /\ maxChunks \in 0..MaxFallbackChunks
  /\ frpc = "call"
  /\ scoredChunks = <<>>
  /\ relevant = <<>>

\* lines 25-35: split, filter, score
FindScore ==
  /\ frpc = "call"
  /\ scoredChunks' = ScoreChunks(Sentences(content), WordsOf(question))
  /\ frpc' = "scored"
  /\ UNCHANGED <<content, question, maxChunks, relevant>>
  /\ UNCHANGED <<ckvars, vsvars, chvars, upvars>>

\* lines 37-40: sort in place, cut, trim
FindReturn ==
  /\ frpc = "scored"
  /\ scoredChunks' = SortByScore(scoredChunks)
  /\ relevant' = [k \in 1..Min(maxChunks, Len(scoredChunks)) |->
                    Trim(SortByScore(scoredChunks)[k].sentence)]
  /\ frpc' = "done"
  /\ UNCHANGED <<content, question, maxChunks>>
  /\ UNCHANGED <<ckvars, vsvars, chvars, upvars>>

\* ========================================================================
\*                           CONTEXT ASSEMBLER
\* ========================================================================
\* bounds of the configured caps and of the result lists
MaxContextCap == 2
MaxCharsCap == 3
MaxHistoryCap == 3
MaxResults == 3

\* chat.js:11-13, the caps read from the environment when the module loads
Configs == [maxContextChunks : 0..MaxContextCap,
            charsPerChunk : 0..MaxCharsCap,
            historyMessages : 0..MaxHistoryCap]

\* A JavaScript value that the text of a context result can be: a string, an
\* array of strings, a number, or null.
JsString(str) == [type |-> "string", chars |-> str, items |-> <<>>]
JsArray(items) == [type |-> "array", chars |-> <<>>, items |-> items]
JsNumber(digits) == [type |-> "number", chars |-> digits, items |-> <<>>]
JsNull == [type |-> "null", chars |-> <<>>, items |-> <<>>]

\* items.join(sep)
RECURSIVE Join(_, _)
Join(items, sep) ==
  IF items = <<>> THEN <<>>
  ELSE IF Len(items) = 1 THEN items[1]
  ELSE items[1] \o sep \o Join(Tail(items), sep)

\* lines 103-112
CoerceToString(value) ==
  CASE value.type = "string" -> value.chars
    [] value.type = "null" -> <<>>
    [] value.type = "array" -> Join(value.items, <<" ">>)
    [] OTHER -> value.chars

\* a context that drops the empty texts before it cuts the list
NormalizeContext_filters_first(results, cfg) ==
  LET texts == [k \in 1..Len(results) |->
                  Take(CoerceToString(results[k].text), cfg.charsPerChunk)]
  IN Take(SelectSeq(texts, LAMBDA t : Len(t) > 0), cfg.maxContextChunks)

\* lines 317-320
NormalizeContext(results, cfg) ==
  LET first == Take(results, cfg.maxContextChunks)
      texts == [k \in 1..Len(first) |->
                  Take(CoerceToString(first[k].text), cfg.charsPerChunk)]
  IN SelectSeq(texts, LAMBDA t : Len(t) > 0)

\* array.slice(from) for a from of either sign
SliceFrom(sq, from) ==
  LET first == IF from < 0 THEN Max(Len(sq) + from, 0) ELSE Min(from, Len(sq))
  IN SubSeq(sq, first + 1, Len(sq))

\* lines 311-314
HistoryOf(stored) ==
  [k \in 1..Len(stored) |-> [role |-> stored[k].role, content |-> stored[k].content]]

\* lines 47-51, the leading words of the system prompt
SystemPrompt == <<"Y", "o", "u", " ", "a", "r", "e", " ", "a", "n", " ", "i", "n", "t", "e", "l", "l", "i", "g", "e", "n", "t", " ", "a", "s", "s", "i", "s", "t", "a", "n", "t">>
ContextLabel == <<"D", "o", "c", "u", "m", "e", "n", "t", " ", "C", "o", "n", "t", "e", "x", "t", ":", "\n">>
QuestionLabel == <<"\n", "\n", "Q", "u", "e", "s", "t", "i", "o", "n", ":", " ">>

\* lines 53-63: the messages handed to the provider
ComposeMessages(q, context, history, cfg) ==
  LET system == [role |-> "system", content |-> SystemPrompt]
      user == [role |-> "user",
               content |-> ContextLabel \o Join(context, <<"\n", "\n">>)
                           \o QuestionLabel \o q]
  IN IF Len(history) > 0
       THEN <<system>> \o SliceFrom(history, 0 - cfg.historyMessages) \o <<user>>
       ELSE <<system, user>>

\* context results: the text is what r.payload?.text || '' or the fallback
\* scorer can leave there
ResultTexts == {JsString(<<>>), JsString(<<"a", "b", "c", "d">>),
                JsArray(<<<<"a", "b">>, <<"c">>>>), JsArray(<<>>),
                JsNumber(<<"7">>)}
Half == [num |-> 1, den |-> 2]
ResultItems == [text : ResultTexts, page : {None}, score : {Half}]
ResultLists == UNION {[1..n -> ResultItems] : n \in 0..MaxResults}

\* stored sessions of zero, one and two earlier turns
NoSources == <<>>
OneSource == <<[page |-> None, text |-> <<"a", "b", ".", ".", ".">>, confidence |-> Half]>>
StoredMessage(role, str, sources) == [role |-> role, content |-> str, sources |-> sources]
TurnOne == <<StoredMessage("user", <<"c", "a", "t">>, NoSources),
             StoredMessage("assistant", <<"y", "e", "s">>, OneSource)>>
TurnTwo == <<StoredMessage("user", <<"d", "o", "g", " ", "c", "a", "t">>, NoSources),
             StoredMessage("assistant", <<"n", "o">>, NoSources)>>
StoredHistories == {<<>>, TurnOne, TurnOne \o TurnTwo}

NoBody == [documentId |-> "", question |-> <<>>, sessionId |-> ""]
NoResponse == [status |-> 0, error |-> "", sessionId |-> "", answer |-> <<>>, sources |-> <<>>]
NoSession == [sessionId |-> "", documentId |-> "", messages |-> <<>>]

ChatTurnIdle ==
  /\ config = [maxContextChunks |-> 0, charsPerChunk |-> 0, historyMessages |-> 0]
  /\ body = NoBody
  /\ chatSession = NoSession
  /\ contextResults = <<>>
  /\ conversationHistory = <<>>
  /\ normalizedContext = <<>>
  /\ messages = <<>>
  /\ chpc = "idle"
  /\ response = NoResponse
  /\ sessions = <<>>
  /\ turnsLeft = 0

\* a chat turn at line 311: the session is loaded and the context results
\* are in
AssembleInputs ==
  /\ config \in Configs
  /\ body \in [documentId : {"A"}, question : {<<"f", "o", "x">>}, sessionId : {"s1"}]
  /\ chatSession \in [sessionId : {"s1"}, documentId : {"A"}, messages : StoredHistories]
  /\ contextResults \in ResultLists
  /\ conversationHistory = <<>>
  /\ normalizedContext = <<>>
  /\ messages = <<>>
  /\ chpc = "assemble"
  /\ response = NoResponse
  /\ sessions = <<>>
  /\ turnsLeft = 0

\* lines 311-320
AssembleContext ==
  /\ chpc = "assemble"
  /\ conversationHistory' = HistoryOf(chatSession.messages)
  /\ normalizedContext' = NormalizeContext(contextResults, config)
  /\ chpc' = "assembled"
  /\ UNCHANGED <<config, body, chatSession, contextResults, messages,
                 response, sessions, turnsLeft>>
  /\ UNCHANGED <<ckvars, vsvars, frvars, upvars>>

\* lines 322-326 and 45-63: generateAIResponse builds its request
ComposeRequest ==
  /\ chpc = "assembled"
  /\ messages' = ComposeMessages(body.question, normalizedContext, conversationHistory, config)
  /\ chpc' = "composed"
  /\ UNCHANGED <<config, body, chatSession, contextResults, conversationHistory,
                 normalizedContext, response, sessions, turnsLeft>>
  /\ UNCHANGED <<ckvars, vsvars, frvars, upvars>>

\* ========================================================================
\*                               CHAT TURN
\* ========================================================================
\* One POST / request at a time. The document store and the session store
\* answer every request; the provider answers with a text or fails.
MaxTurns == 2

\* the documents of the metadata store
Documents ==
  [d \in {"A", "B", "P"} |->
     CASE d = "A" -> [status |-> "completed",
                      content |-> <<"T", "h", "e", " ", "c", "a", "t", " ", "s", "a", "t", " ", "o", "n", " ", "a", " ", "m", "a", "t", ".", " ", "A", " ", "d", "o", "g", " ", "r", "a", "n", " ", "f", "a", "r", " ", "a", "w", "a", "y", "!", " ", "T", "i", "n", "y", ".">>]
       [] d = "B" -> [status |-> "completed",
                      content |-> <<"c", "a", "t", " ", "s", "a", "t", " ", "o", "n", " ", "a", " ", "m", "a", "t", ".", "d", "o", "g", " ", "r", "a", "n", " ", "f", "a", "r", " ", "a", "w", "a", "y", ".", "c", "a", "t", " ", "a", "n", "d", " ", "d", "o", "g", " ", "n", "a", "p">>]
       [] d = "P" -> [status |-> "processing", content |-> <<"n", "o", "t", " ", "r", "e", "a", "d", "y">>]]

\* request bodies: an absent field is the empty string
BodyDocumentIds == {"", "A", "B", "P", "Z"}
BodyQuestions == {<<>>, <<"d", "o", "g", " ", "c", "a", "t">>}
BodySessionIds == {"", "s1", "zz"}
Answers == {<<"o", "k">>}

\* line 288, uuidv4(): the id of the n-th session created
SessionNames == <<"s1", "s2", "s3", "s4">>

\* Chat.findOne({ sessionId })
FindSession(sessionId) ==
  LET hit == {k \in 1..Len(sessions) : sessions[k].sessionId = sessionId}
  IN IF hit = {} THEN None ELSE Some(sessions[CHOOSE k \in hit : TRUE])

\* chatSession.save(): the stored session of that id is replaced, a new
\* session is added
SaveSession(session) ==
  LET hit == {k \in 1..Len(sessions) : sessions[k].sessionId = session.sessionId}
  IN IF hit = {} THEN Append(sessions, session)
     ELSE [sessions EXCEPT ![CHOOSE k \in hit : TRUE] = session]

\* the configuration of the chat turns
ChatConfigs == {c \in Configs : /\ c.maxContextChunks = MaxContextCap
                                /\ c.charsPerChunk = MaxCharsCap
                                /\ c.historyMessages = MaxHistoryCap - 1}

\* the characters of a text of the vector index, whose texts are at most one
\* character long
CharsOf(str) == IF str = "" THEN <<>> ELSE <<str>>

\* lines 301-305: a search result as a context result
ContextResultOf(r) ==
  [text |-> IF "text" \in DOMAIN r.payload
              THEN JsArray([k \in 1..Len(r.payload.text.items) |->
                              CharsOf(r.payload.text.items[k])])
              ELSE JsString(<<>>),
   page |-> IF "page" \in DOMAIN r.payload THEN PageOrNull(r.payload.page) ELSE None,
   score |-> [num |-> r.score, den |-> 1]]

\* line 308
FallbackResults(text, q, cfg) ==
  LET found == FindRelevantChunks(text, q, cfg.maxContextChunks)
  IN [k \in 1..Len(found) |-> [text |-> JsString(found[k]), page |-> None, score |-> Half]]

\* a route that goes on with no context when the search has failed
ContextResultsOf_empty_on_failure(call, text, q, cfg) ==
  IF call.status = "returned"
    THEN [k \in 1..Len(call.results) |-> ContextResultOf(call.results[k])]
    ELSE <<>>

\* a route that also turns to the lexical scorer when the search found nothing
ContextResultsOf_fallback_when_empty(call, text, q, cfg) ==
  IF call.status = "returned" /\ call.results # <<>>
    THEN [k \in 1..Len(call.results) |-> ContextResultOf(call.results[k])]
    ELSE FallbackResults(text, q, cfg)

\* lines 298-309: the context results after the search call has completed
ContextResultsOf(call, text, q, cfg) ==
  IF call.status = "returned"
    THEN [k \in 1..Len(call.results) |-> ContextResultOf(call.results[k])]
    ELSE FallbackResults(text, q, cfg)

PreviewLength == 200
SourceCount == 4
\* lines 340-347: the sources shown to the caller
SourcesOf(results) ==
  LET first == Take(results, SourceCount)
  IN [k \in 1..Len(first) |->
        [page |-> first[k].page,
         text |-> Take(CoerceToString(first[k].text), PreviewLength) \o <<".", ".", ".">>,
         confidence |-> first[k].score]]

Respond(status, error) == [NoResponse EXCEPT !.status = status, !.error = error]

\* line 300: the route calls search(documentId, question, MAX_CONTEXT_CHUNKS)
CallSearch ==
  proc' = [proc EXCEPT ![1] =
     CallEmbedding([IdleProc EXCEPT !.op = "search", !.documentId = body.documentId,
                                    !.text = Str(body.question),
                                    !.topK = config.maxContextChunks],
                   Str(body.question))]

\* lines 258-269: a request arrives; the body is validated and the document
\* is asked for
ChatStart ==
  /\ chpc = "idle"
  /\ turnsLeft > 0
  /\ proc[1].pc = "idle"
  /\ turnsLeft' = turnsLeft - 1
  /\ \E b \in [documentId : BodyDocumentIds, question : BodyQuestions,
                sessionId : BodySessionIds] :
       /\ body' = b
       /\ IF b.documentId = "" \/ b.question = <<>>
            THEN /\ response' = Respond(400, "Document ID and question are required")
                 /\ chpc' = "responded"
            ELSE /\ response' = NoResponse
                 /\ chpc' = "findDocument"
  /\ UNCHANGED <<config, chatSession, contextResults, conversationHistory,
                 normalizedContext, messages, sessions>>
  /\ UNCHANGED <<ckvars, vsvars, frvars, upvars>>

\* lines 269-294: the document store has answered
ChatDocument ==
  /\ chpc = "findDocument"
  /\ IF body.documentId \notin DOMAIN Documents
       THEN /\ response' = Respond(404, "Document not found")
            /\ chpc' = "responded"
            /\ UNCHANGED <<chatSession, proc>>
     ELSE IF Documents[body.documentId].status # "completed"
       THEN /\ response' = Respond(400, "Document is still being processed")
            /\ chpc' = "responded"
            /\ UNCHANGED <<chatSession, proc>>
     ELSE IF body.sessionId # ""
       THEN /\ chpc' = "findSession"
            /\ UNCHANGED <<response, chatSession, proc>>
       ELSE /\ chatSession' = [sessionId |-> SessionNames[Len(sessions) + 1],
                                documentId |-> body.documentId,
                                messages |-> <<>>]
            /\ CallSearch
            /\ chpc' = "search"
            /\ UNCHANGED response
  /\ UNCHANGED <<config, body, contextResults, conversationHistory,
                 normalizedContext, messages, sessions, turnsLeft>>
  /\ UNCHANGED <<client, clientsConstructed, collections, points, opsLeft>>
  /\ UNCHANGED <<ckvars, frvars, upvars>>

\* lines 283-286 and 300: the session store has answered
ChatSession ==
  /\ chpc = "findSession"
  /\ IF FindSession(body.sessionId) = None
       THEN /\ response' = Respond(404, "Chat session not found")
            /\ chpc' = "responded"
            /\ UNCHANGED <<chatSession, proc>>
       ELSE /\ chatSession' = FindSession(body.sessionId)[1]
            /\ CallSearch
            /\ chpc' = "search"
            /\ UNCHANGED response
  /\ UNCHANGED <<config, body, contextResults, conversationHistory,
                 normalizedContext, messages, sessions, turnsLeft>>
  /\ UNCHANGED <<client, clientsConstructed, collections, points, opsLeft>>
  /\ UNCHANGED <<ckvars, frvars, upvars>>

\* lines 300-326 and 45-63: the search call has completed; the context and
\* the history are assembled and the request to the provider is sent
ChatSearched ==
  /\ chpc = "search"
  /\ proc[1].pc = "done"
  /\ LET results == ContextResultsOf(proc[1], Documents[body.documentId].content,
                                     body.question, config)
         history == HistoryOf(chatSession.messages)
         context == NormalizeContext(results, config)
     IN /\ contextResults' = results
        /\ conversationHistory' = history
        /\ normalizedContext' = context
        /\ messages' = ComposeMessages(body.question, context, history, config)
  /\ chpc' = "generate"
  /\ UNCHANGED <<config, body, chatSession, response, sessions, turnsLeft>>
  /\ UNCHANGED <<ckvars, vsvars, frvars, upvars>>

\* a route that stores the question before it asks the provider
ChatGenerated_saves_question_first ==
  /\ chpc = "generate"
  /\ \/ /\ response' = Respond(500, "Failed to generate response from AI")
        /\ chpc' = "responded"
        /\ sessions' = SaveSession([chatSession EXCEPT !.messages =
                           Append(@, StoredMessage("user", body.question, NoSources))])
        /\ UNCHANGED chatSession
     \/ \E aiResponse \in Answers :
          /\ chatSession' =
               [chatSession EXCEPT !.messages =
                  @ \o <<StoredMessage("user", body.question, NoSources),
                         StoredMessage("assistant", aiResponse, SourcesOf(contextResults))>>]
          /\ chpc' = "save"
          /\ UNCHANGED <<response, sessions>>
  /\ UNCHANGED <<config, body, contextResults, conversationHistory,
                 normalizedContext, messages, turnsLeft>>
  /\ UNCHANGED <<ckvars, vsvars, frvars, upvars>>

\* lines 322-350 and 95-98: the provider has answered or failed
ChatGenerated ==
  /\ chpc = "generate"
  /\ \/ /\ response' = Respond(500, "Failed to generate response from AI")
        /\ chpc' = "responded"
        /\ UNCHANGED chatSession
     \/ \E aiResponse \in Answers :
          /\ chatSession' =
               [chatSession EXCEPT !.messages =
                  @ \o <<StoredMessage("user", body.question, NoSources),
                         StoredMessage("assistant", aiResponse, SourcesOf(contextResults))>>]
          /\ chpc' = "save"
          /\ UNCHANGED response
  /\ UNCHANGED <<config, body, contextResults, conversationHistory,
                 normalizedContext, messages, sessions, turnsLeft>>
  /\ UNCHANGED <<ckvars, vsvars, frvars, upvars>>

\* lines 350-365: the session is stored and the answer is sent
ChatSaved ==
  /\ chpc = "save"
  /\ sessions' = SaveSession(chatSession)
  /\ response' = [status |-> 200, error |-> "",
                  sessionId |-> chatSession.sessionId,
                  answer |-> chatSession.messages[Len(chatSession.messages)].content,
                  sources |-> SourcesOf(contextResults)]
  /\ chpc' = "responded"
  /\ UNCHANGED <<config, body, chatSession, contextResults, conversationHistory,
                 normalizedContext, messages, turnsLeft>>
  /\ UNCHANGED <<ckvars, vsvars, frvars, upvars>>

\* the request is over
ChatDone ==
  /\ chpc = "responded"
  /\ chpc' = "idle"
  /\ body' = NoBody
  /\ chatSession' = NoSession
  /\ contextResults' = <<>>
  /\ conversationHistory' = <<>>
  /\ normalizedContext' = <<>>
  /\ messages' = <<>>
  /\ response' = NoResponse
  /\ proc' = [proc EXCEPT ![1] = IdleProc]
  /\ UNCHANGED <<config, sessions, turnsLeft>>
  /\ UNCHANGED <<client, clientsConstructed, collections, points, opsLeft>>
  /\ UNCHANGED <<ckvars, frvars, upvars>>

\* ========================================================================
\*                           DOCUMENT INGESTION
\* ========================================================================
\* bound of the upload requests that are explored
MaxUploads == 2

\* Document.js:3-51: the paths of documentSchema that the routes read back
SchemaPaths == {"documentId", "originalName", "content", "status"}

\* A document of the model is stored and loaded with the paths of its schema
\* only; a property assigned to the document object under another name lives
\* on that object and nowhere else.
Persisted(doc) == [k \in DOMAIN doc \cap SchemaPaths |-> doc[k]]

\* Document.findOne({ documentId })
FindDocument(documentId) ==
  LET hit == {k \in 1..Len(documentStore) : documentStore[k].documentId = documentId}
  IN IF hit = {} THEN None ELSE Some(documentStore[CHOOSE k \in hit : TRUE])

\* document.save(): the stored document of that id is replaced, a new
\* document is added
SaveDocument(doc) ==
  LET hit == {k \in 1..Len(documentStore) : documentStore[k].documentId = doc.documentId}
  IN IF hit = {} THEN Append(documentStore, Persisted(doc))
     ELSE [documentStore EXCEPT ![CHOOSE k \in hit : TRUE] = Persisted(doc)]

\* upload.js:372, 555: the options both routes pass to the chunker
IngestOptions == [chunkTokens |-> 800, overlapTokens |-> 100, model |-> DefaultModel]

\* what the text extraction can yield
UploadTexts == {<<>>, <<"a", "b", "a">>}
\* uuidv4(): the id of the n-th upload
UploadIds == <<"d1", "d2", "d3", "d4">>
UploadRoutes == {"file", "url"}

NoUpload == [route |-> "", hasInput |-> FALSE]
NoDocument == [documentId |-> "", originalName |-> "", content |-> <<>>, status |-> "",
               chunkCount |-> None, lastEmbeddedAt |-> None]
NoUploadResponse == [status |-> 0, documentId |-> ""]
NoStatusReply == [status |-> 0, documentId |-> "", chunkCount |-> None, lastEmbeddedAt |-> None]

UploadIdle ==
  /\ upreq = NoUpload
  /\ document = NoDocument
  /\ documentStore = <<>>
  /\ uppc = "idle"
  /\ upResponse = NoUploadResponse
  /\ statusReply = NoStatusReply
  /\ uploadsLeft = 0

\* lines 346-365 / 533-549: new Document({...}); embeddingStatus is no path
\* of the schema and is dropped by the constructor
NewDocument(documentId, text) ==
  [documentId |-> documentId, originalName |-> "f.pdf", content |-> text,
   status |-> "completed", chunkCount |-> None, lastEmbeddedAt |-> None]

\* lines 375 / 556: the metadata each route hands to upsertChunks
UploadMetadata(route) ==
  IF route = "file" THEN [filename |-> "f.pdf"]
  ELSE [filename |-> "f.pdf", sourceUrl |-> "http://h/f.pdf"]

\* a chunk of the chunker as upsertChunks reads it
VectorChunk(c) == [text |-> Arr(c.text), page |-> c.page, chunkIndex |-> c.chunkIndex]

\* vector.js:282-285: upsertChunks(documentId, cs, base) is entered
EnterUpsert(documentId, cs, base) ==
  LET r == [IdleProc EXCEPT !.op = "upsert", !.documentId = documentId,
                            !.chunks = cs, !.baseMetadata = base]
  IN IF Len(cs) = 0
       THEN [r EXCEPT !.pc = "done", !.status = "returned", !.upserted = 0]
       ELSE CallEmbedding(r, cs[1].text)

\* the request ends with the given status
UploadRespond(status, documentId) ==
  /\ upResponse' = [status |-> status, documentId |-> documentId]
  /\ uppc' = "responded"

\* lines 335-345 / 512-530: a request arrives; without a file (or url) it is
\* answered 400, otherwise the text extraction is started
UploadStart ==
  /\ uppc = "idle"
  /\ uploadsLeft > 0
  /\ proc[1].pc = "idle"
  /\ uploadsLeft' = uploadsLeft - 1
  /\ \E route \in UploadRoutes, hasInput \in BOOLEAN :
       /\ upreq' = [route |-> route, hasInput |-> hasInput]
       /\ IF hasInput
            THEN /\ uppc' = "extract"
                 /\ upResponse' = NoUploadResponse
            ELSE UploadRespond(400, "")
  /\ UNCHANGED <<document, documentStore, statusReply>>
  /\ UNCHANGED <<ckvars, vsvars, chatvars>>

\* lines 345-367 / 527-551: the extraction has ended; a failure ends the
\* request with 500, otherwise the document is built and its save is issued
UploadExtracted ==
  /\ uppc = "extract"
  /\ \/ /\ UploadRespond(500, "")
        /\ UNCHANGED document
     \/ \E text \in UploadTexts :
          /\ document' = NewDocument(UploadIds[MaxUploads - uploadsLeft], text)
          /\ uppc' = "saveDocument"
          /\ UNCHANGED upResponse
  /\ UNCHANGED <<upreq, documentStore, statusReply, uploadsLeft>>
  /\ UNCHANGED <<ckvars, vsvars, chatvars>>

\* lines 367-372 / 551-555: the first save has ended; an empty content fails
\* the schema's required validator and the request ends with 500, otherwise
\* the document is stored and the chunker is called with the text
UploadSaved ==
  /\ uppc = "saveDocument"
  /\ IF document.content = <<>>
       THEN /\ UploadRespond(500, "")
            /\ UNCHANGED <<documentStore, ckvars>>
       ELSE /\ documentStore' = SaveDocument(document)
            /\ uppc' = "chunk"
            /\ rawText' = document.content
            /\ opts' = IngestOptions
            /\ ckpc' = "call"
            /\ UNCHANGED <<upResponse, ckOutcome, encoderLive, tokens, chunks, start,
                           chunkIndex, chunkSize, overlap, windows>>
  /\ UNCHANGED <<upreq, document, statusReply, uploadsLeft>>
  /\ UNCHANGED <<vsvars, chatvars>>

\* lines 372-375, 381-385 / 555-556, 560-564: the chunker has returned and
\* upsertChunks is called; an exception of the chunker is caught and logged
UploadChunked ==
  /\ uppc = "chunk"
  /\ ckpc = "done"
  /\ IF ckOutcome = "threw"
       THEN /\ UploadRespond(201, document.documentId)
            /\ UNCHANGED proc
       ELSE /\ proc' = [proc EXCEPT ![1] =
                 EnterUpsert(document.documentId,
                             [k \in 1..Len(chunks) |-> VectorChunk(chunks[k])],
                             UploadMetadata(upreq.route))]
            /\ uppc' = "upsert"
            /\ UNCHANGED upResponse
  /\ UNCHANGED <<upreq, document, documentStore, statusReply, uploadsLeft>>
  /\ UNCHANGED <<client, clientsConstructed, collections, points, opsLeft>>
  /\ UNCHANGED <<ckvars, chatvars>>

\* a route that records the failure of the embedding on the stored document
UploadEmbedded_marks_failed ==
  /\ uppc = "upsert"
  /\ proc[1].pc = "done"
  /\ IF proc[1].status = "returned"
       THEN /\ document' = [document EXCEPT !.chunkCount = Some(proc[1].upserted),
                                            !.lastEmbeddedAt = Some("now")]
            /\ uppc' = "saveCounts"
            /\ UNCHANGED <<upResponse, documentStore>>
       ELSE /\ UploadRespond(201, document.documentId)
            /\ documentStore' = SaveDocument([document EXCEPT !.status = "failed"])
            /\ UNCHANGED document
  /\ UNCHANGED <<upreq, statusReply, uploadsLeft>>
  /\ UNCHANGED <<ckvars, vsvars, chatvars>>

\* lines 375-385 / 556-564: upsertChunks has ended; on success the counters
\* are set on the document object and its save is issued, a failure is
\* caught and logged and the request is answered 201
UploadEmbedded ==
  /\ uppc = "upsert"
  /\ proc[1].pc = "done"
  /\ IF proc[1].status = "returned"
       THEN /\ document' = [document EXCEPT !.chunkCount = Some(proc[1].upserted),
                                            !.lastEmbeddedAt = Some("now")]
            /\ uppc' = "saveCounts"
            /\ UNCHANGED <<upResponse, documentStore>>
       ELSE /\ UploadRespond(201, document.documentId)
            /\ UNCHANGED <<document, documentStore>>
  /\ UNCHANGED <<upreq, statusReply, uploadsLeft>>
  /\ UNCHANGED <<ckvars, vsvars, chatvars>>

\* lines 380-385 / 559-564: the second save has ended, the request is
\* answered 201
UploadCountsSaved ==
  /\ uppc = "saveCounts"
  /\ documentStore' = SaveDocument(document)
  /\ UploadRespond(201, document.documentId)
  /\ UNCHANGED <<upreq, document, statusReply, uploadsLeft>>
  /\ UNCHANGED <<ckvars, vsvars, chatvars>>

\* the request is over
UploadDone ==
  /\ uppc = "responded"
  /\ uppc' = "idle"
  /\ upreq' = NoUpload
  /\ document' = NoDocument
  /\ upResponse' = NoUploadResponse
  /\ proc' = [proc EXCEPT ![1] = IdleProc]
  /\ ckpc' = "idle"
  /\ rawText' = NullText
  /\ opts' = [chunkTokens |-> 0, overlapTokens |-> 0, model |-> Undefined]
  /\ ckOutcome' = "none"
  /\ encoderLive' = FALSE
  /\ tokens' = <<>>
  /\ chunks' = <<>>
  /\ start' = 0
  /\ chunkIndex' = 0
  /\ chunkSize' = 0
  /\ overlap' = 0
  /\ windows' = <<>>
  /\ UNCHANGED <<documentStore, statusReply, uploadsLeft>>
  /\ UNCHANGED <<client, clientsConstructed, collections, points, opsLeft>>
  /\ UNCHANGED chatvars

\* lines 690-711: what GET /:documentId answers; a path that the loaded
\* document does not have is left out of the JSON body
StatusReplyOf(documentId) ==
  LET found == FindDocument(documentId)
      field(doc, name) == IF name \in DOMAIN doc THEN doc[name] ELSE None
  IN IF found = None
       THEN [NoStatusReply EXCEPT !.status = 404, !.documentId = documentId]
       ELSE [status |-> 200, documentId |-> found[1].documentId,
             chunkCount |-> field(found[1], "chunkCount"),
             lastEmbeddedAt |-> field(found[1], "lastEmbeddedAt")]

\* GET /:documentId
StatusGet ==
  /\ \E documentId \in {UploadIds[k] : k \in 1..MaxUploads} :
       statusReply' = StatusReplyOf(documentId)
  /\ UNCHANGED <<upreq, document, documentStore, uppc, upResponse, uploadsLeft>>
  /\ UNCHANGED <<ckvars, vsvars, chatvars>>

\* the vector backend after the ingestion of document A in two chunks
IngestedA ==
  LET call == [IdleProc EXCEPT !.op = "upsert", !.documentId = "A"]
      first == [text |-> Arr(<<"t">>), page |-> Some(2), chunkIndex |-> 0]
      second == [text |-> Arr(<<"u">>), page |-> None, chunkIndex |-> 1]
  IN Stored(<<MakePoint(call, first, Some(<<1, 2>>), 1),
              MakePoint(call, second, Some(<<3, 4>>), 2)>>)

ChatIdle == FallbackIdle /\ ChatTurnIdle

vars == <<ckvars, vsvars, chatvars, upvars>>

InitChunk ==
  /\ ChunkInputs
  /\ UploadIdle
  /\ ChatIdle
  /\ VectorIdle
  /\ collections = {}
  /\ opsLeft = [p \in Procs |-> 0]

\* The vector service of a fresh server process in front of an empty backend.
\* One request is served at a time.
Init ==
  /\ ChunkIdle
  /\ UploadIdle
  /\ ChatIdle
  /\ VectorIdle
  /\ collections = {}
  /\ opsLeft = [p \in Procs |-> IF p = 1 THEN MaxOps ELSE 0]

Next ==
  \E p \in Procs :
    \/ StartEmbed(p)
    \/ StartEnsure(p)
    \/ StartUpsert(p)
    \/ StartSearch(p)
    \/ EmbedBackend(p)
    \/ OnPrimary(p)
    \/ OnLegacy(p)
    \/ EnsGet(p)
    \/ EnsCreate(p)
    \/ UpWrite(p)
    \/ SearchWait(p)
    \/ Finish(p)

Spec == Init /\ [][Next]_vars

NextChunk ==
  \/ ChunkCall
  \/ ChunkIter
  \/ ChunkReturn
SpecChunk == InitChunk /\ [][NextChunk]_vars

\* Two requests in flight at once: each process serves MaxConcOps calls that
\* reach ensureCollection, and the steps of the two interleave at the awaits.
MaxConcOps == 1
InitConc ==
  /\ ChunkIdle
  /\ UploadIdle
  /\ ChatIdle
  /\ VectorIdle
  /\ collections = {}
  /\ opsLeft = [p \in Procs |-> MaxConcOps]

NextConc ==
  \E p \in Procs :
    \/ StartEnsure(p)
    \/ StartSearch(p)
    \/ EmbedBackend(p)
    \/ OnPrimary(p)
    \/ OnLegacy(p)
    \/ EnsGet(p)
    \/ EnsCreate(p)
    \/ SearchWait(p)
    \/ Finish(p)

SpecConc == InitConc /\ [][NextConc]_vars

\* MaxUploads upload requests, one after the other, on a fresh server in
\* front of an empty vector backend and an empty document store
InitIngest ==
  /\ ChunkIdle
  /\ ChatIdle
  /\ VectorIdle
  /\ collections = {}
  /\ opsLeft = [p \in Procs |-> 0]
  /\ upreq = NoUpload
  /\ document = NoDocument
  /\ documentStore = <<>>
  /\ uppc = "idle"
  /\ upResponse = NoUploadResponse
  /\ statusReply = NoStatusReply
  /\ uploadsLeft = MaxUploads

\* a stored content is never empty, so the chunker always leaves its loop
\* from the iteration that reaches the last token
NextIngest ==
  \/ UploadStart
  \/ UploadExtracted
  \/ UploadSaved
  \/ ChunkCall
  \/ ChunkIter
  \/ UploadChunked
  \/ UploadEmbedded
  \/ UploadCountsSaved
  \/ UploadDone
  \/ StatusGet
  \/ \E p \in Procs :
       \/ EmbedBackend(p)
       \/ OnPrimary(p)
       \/ OnLegacy(p)
       \/ EnsGet(p)
       \/ EnsCreate(p)
       \/ UpWrite(p)

SpecIngest == InitIngest /\ [][NextIngest]_vars

\* findRelevantChunks on every document text and question of the input sets
InitFallback ==
  /\ ChunkIdle
  /\ UploadIdle
  /\ VectorIdle
  /\ collections = {}
  /\ opsLeft = [p \in Procs |-> 0]
  /\ FallbackInputs
  /\ ChatTurnIdle

NextFallback ==
  \/ FindScore
  \/ FindReturn

SpecFallback == InitFallback /\ [][NextFallback]_vars

\* the context assembly on every result list, stored history and
\* configuration of the input sets
InitAssemble ==
  /\ ChunkIdle
  /\ UploadIdle
  /\ VectorIdle
  /\ collections = {}
  /\ opsLeft = [p \in Procs |-> 0]
  /\ FallbackIdle
  /\ AssembleInputs

NextAssemble ==
  \/ AssembleContext
  \/ ComposeRequest

SpecAssemble == InitAssemble /\ [][NextAssemble]_vars

\* MaxTurns chat turns against an empty vector backend or against one that
\* holds document A
InitChat ==
  /\ ChunkIdle
  /\ UploadIdle
  /\ FallbackIdle
  /\ proc = [p \in Procs |-> IdleProc]
  /\ client = 0
  /\ clientsConstructed = 0
  /\ \/ collections = {} /\ points = <<>>
     \/ /\ collections = {[name |-> QDRANT_COLLECTION, size |-> 2, distance |-> "Cosine"]}
        /\ points = IngestedA
  /\ opsLeft = [p \in Procs |-> 0]
  /\ config \in ChatConfigs
  /\ body = NoBody
  /\ chatSession = NoSession
  /\ contextResults = <<>>
  /\ conversationHistory = <<>>
  /\ normalizedContext = <<>>
  /\ messages = <<>>
  /\ chpc = "idle"
  /\ response = NoResponse
  /\ sessions = <<>>
  /\ turnsLeft = MaxTurns

NextChat ==
  \/ ChatStart
  \/ ChatDocument
  \/ ChatSession
  \/ ChatSearched
  \/ ChatGenerated
  \/ ChatSaved
  \/ ChatDone
  \/ \E p \in Procs :
       \/ EmbedBackend(p)
       \/ OnPrimary(p)
       \/ OnLegacy(p)
       \/ EnsGet(p)
       \/ EnsCreate(p)
       \/ SearchWait(p)

SpecChat == InitChat /\ [][NextChat]_vars

\* ========================================================================
\*                       PROPERTIES OF THE CHUNKER
\* ========================================================================
CeilDiv(a, b) == (a + b - 1) \div b

ChunkReturned == ckpc = "done" /\ ckOutcome = "returned"
\* a configuration with a positive window and a smaller, non-negative overlap
ProperConfig == opts.chunkTokens >= 1 /\ opts.overlapTokens >= 0
                /\ opts.overlapTokens < opts.chunkTokens

\* C2: every iteration of the chunker's loop that does not reach the end of
\* the token sequence moves the window start forward by at least one token,
\* whatever chunkTokens and overlapTokens are.
C2_StartAdvances ==
  [][(ckpc = "loop" /\ ckpc' = "loop") => start' > start]_vars

\* C3 as stated: for N >= 1 tokens, C >= 1 and 0 <= O < C the call returns
\* exactly ceil(max(N - O, 0) / (C - O)) chunks, and exactly 1 chunk when N <= C.
C3_CountAsStated ==
  (ChunkReturned /\ ProperConfig /\ Len(tokens) >= 1) =>
     /\ Len(chunks) = CeilDiv(Max(Len(tokens) - opts.overlapTokens, 0),
                              opts.chunkTokens - opts.overlapTokens)
     /\ (Len(tokens) <= opts.chunkTokens => Len(chunks) = 1)

\* C3 amended: for N >= 1 tokens, C >= 1 and 0 <= O < C the call returns
\* exactly 1 chunk when N <= C (also when N <= O, where the quotient is 0) and
\* exactly ceil((N - O) / (C - O)) chunks when N > O.
C3_ChunkCount ==
  (ChunkReturned /\ ProperConfig /\ Len(tokens) >= 1) =>
     /\ (Len(tokens) > opts.overlapTokens =>
           Len(chunks) = CeilDiv(Len(tokens) - opts.overlapTokens,
                                 opts.chunkTokens - opts.overlapTokens))
     /\ (Len(tokens) <= opts.chunkTokens => Len(chunks) = 1)

C3_Witness ==
  /\ ChunkReturned /\ ProperConfig
  /\ opts.overlapTokens >= 1
  /\ Len(tokens) > 2 * opts.chunkTokens
  /\ Len(chunks) >= 3

\* C4: with 0 <= O < C the k-th chunk (k = 0, 1, ...) has chunkIndex k and is
\* the decoded token window [k*(C-O), min(k*(C-O)+C, N)); consecutive windows
\* share exactly O tokens, only the last window is shorter than C, and the
\* windows of a finished call cover every token.
C4_Windows ==
  ProperConfig /\ ckpc \in {"loop", "done"} =>
    LET C == opts.chunkTokens
        O == opts.overlapTokens
        N == Len(tokens)
    IN /\ Len(windows) = Len(chunks)
       /\ \A k \in 1..Len(chunks) :
            /\ chunks[k].chunkIndex = k - 1
            /\ windows[k] = <<(k - 1) * (C - O), Min((k - 1) * (C - O) + C, N)>>
            /\ chunks[k].text = <<Decode(SubSeq(tokens, windows[k][1] + 1, windows[k][2]))>>
            /\ (k < Len(chunks) => /\ windows[k][2] - windows[k][1] = C
                                   /\ windows[k][2] - windows[k + 1][1] = O
                                   /\ windows[k + 1][2] > windows[k][2])
       /\ (ChunkReturned =>
             \A t \in 0..(N - 1) :
                \E k \in 1..Len(windows) : windows[k][1] <= t /\ t < windows[k][2])

C4_Witness ==
  /\ ChunkReturned /\ ProperConfig
  /\ opts.overlapTokens >= 1
  /\ Len(chunks) >= 3
  /\ windows[Len(windows)][2] - windows[Len(windows)][1] < opts.chunkTokens

\* C5: a call on an empty, null or undefined text that returns, returns the
\* empty sequence; it never holds a chunk at any point of the call.
C5_EmptyText ==
  TextOrEmpty(rawText) = <<>> =>
     /\ chunks = <<>>
     /\ (ckpc = "done" /\ opts.model \in KnownModels \cup {Undefined} => ckOutcome = "returned")

C5_Witness ==
  /\ ChunkReturned
  /\ rawText = NullText
  /\ opts.chunkTokens >= 1
  /\ chunks = <<>>

SearchReturned(p) ==
  proc[p].op = "search" /\ proc[p].pc = "done" /\ proc[p].status = "returned"

\* C1: every result that search(documentId, q, k) returns carries a payload
\* whose documentId is the documentId searched for, whatever points of other
\* documents the shared collection holds.
C1_Isolation ==
  \A p \in Procs :
    SearchReturned(p) =>
      \A k \in 1..Len(proc[p].results) :
        proc[p].results[k].payload.documentId = proc[p].documentId

C1_Witness ==
  \E p \in Procs :
    /\ SearchReturned(p)
    /\ proc[p].results # <<>>
    /\ \E k \in 1..Len(points) : points[k].payload.documentId # proc[p].documentId
    /\ Len(proc[p].queryEmbedding[1]) = 2

\* the primary request of process p has completed and its handler runs
PrimaryHandled(p) ==
  proc[p].pc = "embPrimary" /\ proc[p].reply.arrived /\ proc'[p] # proc[p]
LegacyHandled(p) ==
  proc[p].pc = "embLegacy" /\ proc[p].reply.arrived /\ proc'[p] # proc[p]

\* C7: the legacy endpoint is called, once and with the text as a
\* single-string prompt, exactly when the primary call threw or its response
\* matched none of the three shapes; it is not called when the primary
\* response matched a shape.
C7_LegacyExactlyOnFailure ==
  [][\A p \in Procs :
       PrimaryHandled(p) =>
         LET failed == proc[p].reply.threw \/ ~Probe(proc[p].reply.data).matched
         IN /\ failed <=> (proc'[p].pc = "embLegacy")
            /\ failed => /\ proc'[p].nLegacy = 1
                         /\ proc'[p].req.endpoint = LegacyPath
                         /\ proc'[p].req.prompt = StringOf(proc[p].embText)]_vars

\* C8: a getEmbedding call that returns, returns a vector; it never returns
\* undefined.
C8_ReturnsVectorOrThrows ==
  \A p \in Procs : proc[p].embStatus = "returned" => proc[p].embValue # None

\* the vector the probe order of the specification selects from a body
FirstShape(data) ==
  IF data.embedding # None THEN data.embedding[1]
  ELSE IF data.embeddings # None THEN data.embeddings[1][1]
  ELSE data.dataEmbeddings[1][1]
\* the body matches a shape and the winning shape holds a vector
HoldsVector(data) ==
  \/ data.embedding # None
  \/ data.embedding = None /\ data.embeddings # None /\ data.embeddings[1] # <<>>
  \/ data.embedding = None /\ data.embeddings = None
       /\ data.dataEmbeddings # None /\ data.dataEmbeddings[1] # <<>>

\* C9: a primary response that matches a shape makes getEmbedding return the
\* vector of the first matching shape in the order embedding, embeddings[0],
\* data.embeddings[0]; after a primary failure the legacy response is probed
\* the same way.
C9_FirstShapeWins ==
  [][\A p \in Procs :
       /\ (PrimaryHandled(p) /\ ~proc[p].reply.threw /\ HoldsVector(proc[p].reply.data)) =>
            /\ proc'[p].embStatus = "returned"
            /\ proc'[p].embValue = Some(FirstShape(proc[p].reply.data))
       /\ (LegacyHandled(p) /\ ~proc[p].reply.threw /\ HoldsVector(proc[p].reply.data)) =>
            /\ proc'[p].embStatus = "returned"
            /\ proc'[p].embValue = Some(FirstShape(proc[p].reply.data))]_vars

\* the number of getEmbedding calls an operation may make
EmbedCallLimit(r) ==
  CASE r.op = "upsert" -> Len(r.chunks)
    [] r.op \in {"search", "embed"} -> 1
    [] OTHER -> 0

\* C10: one getEmbedding call posts at most one primary and one legacy
\* request; an operation makes at most one getEmbedding call per chunk (one
\* per search), so at most two posts per call, and it ends in failure as soon
\* as one getEmbedding call has failed.
C10_BoundedRequests ==
  \A p \in Procs :
    /\ proc[p].nPrimary <= 1
    /\ proc[p].nLegacy <= 1
    /\ proc[p].nEmbedCalls <= EmbedCallLimit(proc[p])
    /\ proc[p].nPosts <= 2 * proc[p].nEmbedCalls
    /\ proc[p].embStatus = "threw" => (proc[p].pc = "done" /\ proc[p].status = "threw")

C10_Witness ==
  \E p \in Procs :
    /\ proc[p].op = "upsert"
    /\ proc[p].pc = "done"
    /\ proc[p].status = "threw"
    /\ proc[p].error = InvalidEmbedding
    /\ proc[p].nEmbedCalls = 2
    /\ proc[p].nPosts = 4

UpsertFailedOnEmbedding(p) ==
  /\ proc[p].op = "upsert" /\ proc[p].pc = "done" /\ proc[p].status = "threw"
  /\ proc[p].error = InvalidEmbedding

\* C12: an upsertChunks call in which the embedding of a chunk fails ends in
\* failure and writes no point; the stored points change only in the write
\* of a call whose chunks have all been embedded, and that write leaves every
\* point stored before in place.
C12_NoPartialWrite ==
  [][/\ \A p \in Procs :
          (proc'[p].op = "upsert" /\ proc'[p].embStatus = "threw") =>
             /\ proc'[p].pc = "done" /\ proc'[p].status = "threw"
             /\ points' = points
     /\ \A p \in Procs :
          (proc'[p].status = "threw" /\ proc[p].status # "threw") => points' = points
     /\ points' # points =>
          \E p \in Procs :
             /\ proc[p].op = "upsert" /\ proc[p].pc = "upWrite"
             /\ proc'[p].status = "returned"
             /\ Len(proc[p].pts) = Len(proc[p].chunks)
             /\ proc[p].nEmbedCalls = Len(proc[p].chunks)
     /\ Len(points') >= Len(points)
     /\ SubSeq(points', 1, Len(points)) = points]_vars

C12_Witness ==
  \E p \in Procs :
    /\ UpsertFailedOnEmbedding(p)
    /\ proc[p].pts # <<>>
    /\ proc[p].nEmbedCalls = Len(proc[p].chunks)

EmptyUpsert(p) ==
  proc[p].op = "upsert" /\ (proc[p].chunksNull \/ proc[p].chunks = <<>>)

\* C13: upsertChunks on an empty, null or undefined chunk list returns
\* {upserted: 0} at once: the call is never at an embedding request, at the
\* collection check or create, or at the point write.
C13_EmptyUpsertIsLocal ==
  \A p \in Procs :
    EmptyUpsert(p) =>
      /\ proc[p].pc = "done"
      /\ proc[p].status = "returned"
      /\ proc[p].upserted = 0
      /\ proc[p].nEmbedCalls = 0
      /\ proc[p].nPosts = 0
      /\ proc[p].req = NoRequest

C13_Witness ==
  \E p \in Procs :
    /\ EmptyUpsert(p)
    /\ proc[p].chunksNull
    /\ proc[p].status = "returned"
    /\ client = 0
    /\ collections = {}

UpsertSucceeds(p) ==
  proc[p].op = "upsert" /\ proc[p].pc = "upWrite"
  /\ proc'[p].pc = "done" /\ proc'[p].status = "returned"

PointIds(sq) == {sq[k].id : k \in 1..Len(sq)}

\* C14: a successful upsertChunks call of n chunks returns {upserted: n} and
\* appends n points, one per chunk in chunk order, under ids that are
\* distinct and carried by no point stored before; every point stored before
\* stays as it was, so the stored points only accumulate.
C14_AddsFreshPoints ==
  [][/\ Len(points') >= Len(points)
     /\ SubSeq(points', 1, Len(points)) = points
     /\ \A p \in Procs :
          UpsertSucceeds(p) =>
            LET n == Len(proc[p].chunks)
                new == SubSeq(points', Len(points) + 1, Len(points'))
            IN /\ proc'[p].upserted = n
               /\ Len(points') = Len(points) + n
               /\ Cardinality(PointIds(new)) = n
               /\ PointIds(new) \cap PointIds(points) = {}
               /\ \A k \in 1..n :
                    /\ new[k].payload.text = proc[p].chunks[k].text
                    /\ new[k].payload.chunkIndex = proc[p].chunks[k].chunkIndex]_vars

C14_Witness ==
  \E p \in Procs :
    /\ proc[p].op = "upsert" /\ proc[p].pc = "done" /\ proc[p].status = "returned"
    /\ proc[p].upserted = 1
    /\ Len(points) = 2
    /\ points[1].payload.documentId = proc[p].documentId
    /\ points[2].payload.documentId = proc[p].documentId
    /\ points[1].payload.chunkIndex = points[2].payload.chunkIndex
    /\ points[1].id # points[2].id

\* the request of process p carries a vector that does not have the
\* dimension of the collection
DimensionMismatch(p) ==
  \/ /\ proc[p].pc = "upWrite"
     /\ \E k \in 1..Len(proc[p].pts) :
          \/ proc[p].pts[k].vector = None
          \/ Len(proc[p].pts[k].vector[1]) # CollectionSize
  \/ /\ proc[p].pc = "searchWait"
     /\ Len(proc[p].queryEmbedding[1]) # CollectionSize

\* C15: once the collection exists its dimension never changes, whatever
\* dimension a later ensureCollection is called with; an upsert or a search
\* whose vectors have another dimension fails at the backend, and every
\* stored point has the dimension of the collection.
C15_DimensionFixed ==
  [][/\ CollectionExists => collections' = collections
     /\ \A k \in 1..Len(points') :
          \E col \in collections' : Len(points'[k].vector) = col.size
     /\ \A p \in Procs :
          (CollectionExists /\ DimensionMismatch(p) /\ proc'[p] # proc[p]) =>
             /\ proc'[p].status = "threw"
             /\ proc'[p].error \in {BadRequest, BackendDown}
             /\ points' = points]_vars

C15_Witness ==
  \E p \in Procs :
    /\ proc[p].op = "search" /\ proc[p].pc = "done"
    /\ proc[p].status = "threw" /\ proc[p].error = BadRequest
    /\ CollectionExists
    /\ Len(proc[p].queryEmbedding[1]) = 1
    /\ CollectionSize = 2
    /\ points # <<>>

\* the vector that the embedding call completed by this step has returned
ReturnedVector(p) == Probe(proc[p].reply.data).value

C27_PayloadNamesDocument ==
  [][\A p \in Procs :
       UpsertSucceeds(p) =>
         LET n == Len(proc[p].chunks)
             new == SubSeq(points', Len(points') - n + 1, Len(points'))
         IN \A k \in 1..n :
              /\ new[k].payload.documentId = proc[p].documentId
              /\ new[k].payload.text = proc[p].chunks[k].text
              /\ new[k].payload.page = PageOrNull(proc[p].chunks[k].page)
              /\ new[k].payload.chunkIndex = proc[p].chunks[k].chunkIndex]_vars

\* the positions of a call behind its getClient() call
BehindGetClient == {"ensGet", "ensCreate", "upWrite", "searchWait"}

\* C26: the client handle is constructed at most once, by the first call that
\* reaches getClient(); once constructed it is never replaced, and every call
\* behind its getClient() holds that one handle, under every interleaving.
C26_ClientConstructedOnce ==
  [][/\ clientsConstructed' <= 1
     /\ client' = clientsConstructed'
     /\ (client # 0 => client' = client)
     /\ \A p \in Procs : proc'[p].pc \in BehindGetClient => client' # 0]_vars

C26_Witness ==
  /\ proc[1].pc = "searchWait"
  /\ proc[2].pc = "ensCreate"
  /\ client = 1
  /\ clientsConstructed = 1

\* C26 as stated: the handle is constructed at most once and a first call of
\* ensureCollection, upsertChunks or search always constructs it, so that
\* the handle exists once such a call has ended.
C26_FirstCallConstructs ==
  /\ clientsConstructed <= 1
  /\ \A p \in Procs :
       (proc[p].op \in {"ensure", "upsert", "search"} /\ proc[p].pc = "done") => client # 0

\* C11: under every interleaving of concurrent ensureCollection calls on a
\* missing collection no call fails with "already exists", and at most one
\* collection of the configured name exists.
C11_ToleratesConcurrency ==
  /\ \A p \in Procs : ~(proc[p].status = "threw" /\ proc[p].error = AlreadyExists)
  /\ Cardinality({col \in collections : col.name = QDRANT_COLLECTION}) <= 1

\* ========================================================================
\*                  PROPERTIES OF THE LEXICAL FALLBACK SCORER
\* ========================================================================
\* C19: findRelevantChunks returns at most maxChunks sentences; they are the
\* trimmed candidates at the head of the ranking, and the ranking holds every
\* candidate once, in order of non-increasing score, candidates of equal
\* score in their order in the text.
C19_RankedTopChunks ==
  frpc = "done" =>
    LET cand == Sentences(content)
        n == Len(cand)
    IN /\ Len(relevant) = Min(maxChunks, n)
       /\ Len(scoredChunks) = n
       /\ {scoredChunks[k].index : k \in 1..n} = 0..(n - 1)
       /\ \A k \in 1..n :
            /\ scoredChunks[k].sentence = cand[scoredChunks[k].index + 1]
            /\ scoredChunks[k].score =
                 Overlap(WordsOf(question), WordsOf(scoredChunks[k].sentence))
       /\ \A k \in 1..n : \A l \in (k + 1)..n :
            \/ scoredChunks[k].score > scoredChunks[l].score
            \/ /\ scoredChunks[k].score = scoredChunks[l].score
               /\ scoredChunks[k].index < scoredChunks[l].index
       /\ \A k \in 1..Len(relevant) : relevant[k] = Trim(scoredChunks[k].sentence)

C19_Witness ==
  /\ frpc = "done"
  /\ maxChunks = 2
  /\ Len(relevant) = 2
  /\ Len(scoredChunks) = 4
  /\ scoredChunks[1].index = 1
  /\ scoredChunks[1].score = scoredChunks[2].score
  /\ scoredChunks[3].score < scoredChunks[2].score
  /\ scoredChunks[3].index = 0

\* the words of a string that hold at least one character
RealWords(str) == SelectSeq(WordsOf(str), LAMBDA w : w # <<>>)

\* C20: the score of a sentence is the number of question words w for which
\* some word s of the sentence contains w or is contained in w; a question
\* word in no such relation with a word of the sentence adds nothing,
\* whatever whitespace surrounds the sentence or the question.
C20_ScoreCountsRelatedWords ==
  frpc \in {"scored", "done"} =>
    \A k \in 1..Len(scoredChunks) :
      scoredChunks[k].score =
        Overlap(RealWords(question), RealWords(scoredChunks[k].sentence))

\* the fragments of the content between runs of sentence terminators
Fragments == SplitRuns(content, Terminators)

\* C21: the candidates of the fallback scorer are exactly the fragments of at
\* least 10 characters (surrounding whitespace not counted): a shorter
\* fragment is never a candidate, a fragment of 10 or more always is.
C21_DiscardsShorterThanTen ==
  frpc \in {"scored", "done"} =>
    \A i \in 1..Len(Fragments) :
      (Len(Trim(Fragments[i])) >= 10) <=>
        (\E k \in 1..Len(scoredChunks) : scoredChunks[k].sentence = Fragments[i])

\* ========================================================================
\*                   PROPERTIES OF THE CONTEXT ASSEMBLER
\* ========================================================================
\* the text of result k as the context holds it
Truncated(k) == Take(CoerceToString(contextResults[k].text), config.charsPerChunk)

\* C17: the context handed to generation has at most maxContextChunks texts,
\* each of 1 to charsPerChunk characters; it holds the truncated texts of the
\* first maxContextChunks results, in their order, without the empty ones.
C17_BoundedContext ==
  chpc \in {"assembled", "composed"} =>
    LET n == Min(config.maxContextChunks, Len(contextResults))
        kept == {k \in 1..n : Truncated(k) # <<>>}
    IN /\ Len(normalizedContext) <= config.maxContextChunks
       /\ \A k \in 1..Len(normalizedContext) :
            /\ Len(normalizedContext[k]) >= 1
            /\ Len(normalizedContext[k]) <= config.charsPerChunk
       /\ Len(normalizedContext) = Cardinality(kept)
       /\ \A k \in kept :
            normalizedContext[Cardinality({j \in kept : j <= k})] = Truncated(k)

C17_Witness ==
  /\ chpc = "composed"
  /\ config.maxContextChunks = 2
  /\ Len(contextResults) = 3
  /\ CoerceToString(contextResults[1].text) = <<>>
  /\ contextResults[2].text.type = "array"
  /\ Len(CoerceToString(contextResults[2].text)) > config.charsPerChunk
  /\ CoerceToString(contextResults[3].text) # <<>>
  /\ Len(normalizedContext) = 1
  /\ Len(normalizedContext[1]) = config.charsPerChunk

\* C18: the history forwarded to generation is the last historyMessages
\* entries of the earlier turns, in their order, as {role, content} pairs;
\* it never has more than historyMessages entries, also when historyMessages
\* is 0.
C18_BoundedHistory ==
  chpc = "composed" =>
    LET forwarded == SubSeq(messages, 2, Len(messages) - 1)
        stored == chatSession.messages
        n == Min(config.historyMessages, Len(stored))
    IN /\ Len(forwarded) <= config.historyMessages
       /\ forwarded = [k \in 1..n |->
                         [role |-> stored[Len(stored) - n + k].role,
                          content |-> stored[Len(stored) - n + k].content]]

\* ========================================================================
\*                       PROPERTIES OF THE CHAT TURN
\* ========================================================================
\* the search call of the running turn has failed
SearchFailed ==
  proc[1].op = "search" /\ proc[1].pc = "done" /\ proc[1].status = "threw"
\* the provider has answered the running turn
GenerationSucceeded ==
  Len(chatSession.messages) = Len(conversationHistory) + 2

\* C16: when the search call of a chat turn has failed, the context results
\* are the output of the fallback scorer on the document's text, at most
\* MAX_CONTEXT_CHUNKS items, each with score 0.5 and page null; the turn
\* goes on to generation and, when generation succeeds, ends with the answer
\* and status 200.
C16_DegradedTurnCompletes ==
  (SearchFailed /\ chpc \in {"generate", "save", "responded"}) =>
    LET found == FindRelevantChunks(Documents[body.documentId].content, body.question,
                                    config.maxContextChunks)
    IN /\ Len(contextResults) = Len(found)
       /\ Len(contextResults) <= config.maxContextChunks
       /\ \A k \in 1..Len(contextResults) :
            /\ contextResults[k].text = JsString(found[k])
            /\ contextResults[k].score = Half
            /\ contextResults[k].page = None
       /\ (chpc = "responded" =>
             IF GenerationSucceeded
               THEN /\ response.status = 200
                    /\ response.answer \in Answers
                    /\ FindSession(chatSession.sessionId) = Some(chatSession)
               ELSE response.status = 500)

C16_Witness ==
  /\ SearchFailed
  /\ proc[1].error = BackendDown
  /\ chpc = "responded"
  /\ response.status = 200
  /\ Len(contextResults) = config.maxContextChunks
  /\ Len(FallbackResults(Documents[body.documentId].content, body.question,
                          [config EXCEPT !.maxContextChunks = @ + 1])) > Len(contextResults)
  /\ points # <<>>

\* C28: a turn that has loaded a stored session goes on only with a session
\* of the requested document: the session whose history is sent to
\* generation, and to which the turn is appended, was created for the
\* documentId of the request.
C28_SessionOfRequestedDocument ==
  chpc \in {"search", "generate", "save"} =>
    chatSession.documentId = body.documentId

\* the stored messages of the session of the given id, none for an id that
\* is not stored
StoredMessagesOf(store, sessionId) ==
  LET hit == {k \in 1..Len(store) : store[k].sessionId = sessionId}
  IN IF hit = {} THEN <<>> ELSE store[CHOOSE k \in hit : TRUE].messages

\* the turn ends with status 200 in this step
TurnSucceeds == chpc # "responded" /\ chpc' = "responded" /\ response'.status = 200

\* C29: a successful turn appends two messages to the stored session, the
\* user's question and then the assistant's answer, and touches no other
\* session; every other step, a failing turn included, leaves the stored
\* sessions as they are; the stored messages of every session alternate
\* user, assistant from the first message on.
C29_TurnsAppendPairs ==
  [][/\ IF TurnSucceeds
          THEN LET id == response'.sessionId
               IN /\ StoredMessagesOf(sessions', id) =
                       StoredMessagesOf(sessions, id)
                         \o <<StoredMessage("user", body.question, NoSources),
                              StoredMessage("assistant", response'.answer,
                                            SourcesOf(contextResults))>>
                  /\ {sessions'[k].sessionId : k \in 1..Len(sessions')} =
                       {sessions[k].sessionId : k \in 1..Len(sessions)} \cup {id}
                  /\ Len(sessions') = Cardinality({sessions'[k].sessionId : k \in 1..Len(sessions')})
                  /\ \A k \in 1..Len(sessions) :
                       sessions[k].sessionId # id => sessions'[k] = sessions[k]
          ELSE sessions' = sessions
     /\ \A k \in 1..Len(sessions') :
          \A j \in 1..Len(sessions'[k].messages) :
            sessions'[k].messages[j].role = (IF j % 2 = 1 THEN "user" ELSE "assistant")]_vars

C29_Witness ==
  /\ chpc = "responded"
  /\ response.status = 500
  /\ body.sessionId = "s1"
  /\ chatSession.sessionId = "s1"
  /\ Len(conversationHistory) = 2
  /\ Len(sessions) = 1
  /\ Len(sessions[1].messages) = 2

\* the search call of the running turn has returned
TurnSearchReturned ==
  proc[1].op = "search" /\ proc[1].pc = "done" /\ proc[1].status = "returned"

\* what the lexical scorer yields for the running turn
FallbackOfTurn ==
  FallbackResults(Documents[body.documentId].content, body.question, config)

\* C30: the context results of a turn are the output of the lexical scorer
\* exactly when the search call raised; when the search returned they are
\* the search results, one context result per search result, and when it
\* returned no result the context is empty and the request to the provider
\* carries the question with no context text.
C30_FallbackOnlyOnFailure ==
  chpc \in {"generate", "save", "responded"} /\ proc[1].op = "search" =>
    /\ SearchFailed => contextResults = FallbackOfTurn
    /\ TurnSearchReturned =>
         /\ Len(contextResults) = Len(proc[1].results)
         /\ \A k \in 1..Len(contextResults) :
              contextResults[k] = ContextResultOf(proc[1].results[k])
         /\ proc[1].results = <<>> =>
              /\ contextResults = <<>>
              /\ normalizedContext = <<>>
              /\ messages[Len(messages)] =
                   [role |-> "user",
                    content |-> ContextLabel \o QuestionLabel \o body.question]

C30_Witness ==
  /\ TurnSearchReturned
  /\ proc[1].results = <<>>
  /\ points = <<>>
  /\ FallbackOfTurn # <<>>
  /\ chpc = "responded"
  /\ response.status = 200
  /\ response.sources = <<>>

\* ========================================================================
\*                     PROPERTIES OF THE DOCUMENT INGESTION
\* ========================================================================
\* the upsertChunks call of the running upload has failed
IngestionFailed ==
  uppc = "upsert" /\ proc[1].pc = "done" /\ proc[1].status = "threw"

\* C22: from the first save of the document to the end of upsertChunks the
\* stored documents do not change; when upsertChunks has failed, the route
\* goes on to answer 201 with the id of the document, and a request answered
\* 201 leaves the document stored as it was saved, with status completed.
C22_FailureStaysInsideIngestion ==
  [][/\ uppc \in {"chunk", "upsert"} => documentStore' = documentStore
     /\ (IngestionFailed /\ uppc' # uppc) =>
          /\ uppc' = "responded"
          /\ upResponse' = [status |-> 201, documentId |-> document.documentId]
     /\ (uppc' = "responded" /\ upResponse'.status = 201) =>
          /\ LET hit == {k \in 1..Len(documentStore') :
                            documentStore'[k].documentId = document'.documentId}
             IN /\ Cardinality(hit) = 1
                /\ \A k \in hit :
                     documentStore'[k] =
                       Persisted(NewDocument(document'.documentId, document'.content))
          /\ Len(documentStore') >= Len(documentStore)]_vars

C22_Witness ==
  /\ uppc = "responded"
  /\ upResponse.status = 201
  /\ proc[1].op = "upsert" /\ proc[1].status = "threw"
  /\ proc[1].nEmbedCalls = 1
  /\ points = <<>>
  /\ Len(documentStore) = 2
  /\ documentStore[2].documentId = upResponse.documentId
  /\ documentStore[2].status = "completed"

\* C23: once an upload is answered 201, the status operation on its document
\* reports chunkCount = n and a lastEmbeddedAt when upsertChunks stored n
\* chunks, and a zero or absent chunkCount when upsertChunks failed.
C23_CountsVisible ==
  (uppc = "responded" /\ upResponse.status = 201 /\ proc[1].op = "upsert") =>
    LET reply == StatusReplyOf(upResponse.documentId)
    IN /\ reply.status = 200
       /\ proc[1].status = "returned" =>
            /\ reply.chunkCount = Some(proc[1].upserted)
            /\ reply.lastEmbeddedAt # None
       /\ proc[1].status = "threw" => reply.chunkCount \in {None, Some(0)}

\* C24: the ingestion chunks the text into windows of 2000 tokens with an
\* overlap of 200 tokens.
C24_DocumentedWindow ==
  uppc = "chunk" =>
    /\ opts.chunkTokens = 2000 /\ opts.overlapTokens = 200
    /\ ckpc \in {"loop", "done"} => (chunkSize = 2000 /\ overlap = 200)

====
